---- MODULE Spec2Model ----
(***************************************************************************)
(* The useSequencer hook of four-slashes: the compilation of bars into a   *)
(* time-sorted list of sequenced action groups (initSequence), and the     *)
(* frame-driven transport (playSequence, pauseSequence, stopSequence,      *)
(* sequenceLoop, playAction) with its setTimeout timers.                   *)
(*                                                                         *)
(* Times are milliseconds.  The scores below use tempi and note values for *)
(* which the source's floating-point arithmetic is exact, so integers      *)
(* compute the same values.                                                *)
(***************************************************************************)
EXTENDS Integers, Sequences, FiniteSets, TLC

(***************************************************************************)
(* Generic helpers                                                         *)
(***************************************************************************)
Max(a, b) == IF a >= b THEN a ELSE b

RECURSIVE SeqSum(_)
SeqSum(s) == IF s = <<>> THEN 0 ELSE Head(s) + SeqSum(Tail(s))

RECURSIVE SeqMax(_)
\* Math.max(...xs) of a non-empty list
SeqMax(s) == IF Len(s) = 1 THEN s[1] ELSE Max(Head(s), SeqMax(Tail(s)))

RECURSIVE Flatten(_)
Flatten(ss) == IF ss = <<>> THEN <<>> ELSE Head(ss) \o Flatten(Tail(ss))

Exists(s, P(_)) == \E i \in 1..Len(s) : P(s[i])

Every(s, P(_)) == \A i \in 1..Len(s) : P(s[i])

\* Array.prototype.findIndex, 1-based; 0 when nothing matches
FindIndex(s, P(_)) ==
    IF Exists(s, P) THEN CHOOSE i \in 1..Len(s) : P(s[i]) /\ \A j \in 1..(i - 1) : ~P(s[j])
    ELSE 0

\* Array.prototype.findLastIndex, 1-based; 0 when nothing matches
FindLastIndex(s, P(_)) ==
    IF Exists(s, P)
    THEN CHOOSE i \in 1..Len(s) : P(s[i]) /\ \A j \in (i + 1)..Len(s) : ~P(s[j])
    ELSE 0

(***************************************************************************)
(* Data model: actions, action groups, bars                                *)
(***************************************************************************)
Pitch(l, a, o) == [letter |-> l, acc |-> a, oct |-> o]

NoPitch == Pitch("", "", 0)

TimeSig(n, u) == [beatsPerBar |-> n, beatUnit |-> u]

BaseAction(t) ==
    [type |-> t, pitch |-> NoPitch, duration |-> 4, dotted |-> FALSE, tied |-> FALSE,
     bpm |-> 0, keySignature |-> "", timeSignature |-> TimeSig(0, 0),
     pedalOnEveryBar |-> FALSE]

NoteAction(p, d, dot, tie) ==
    [BaseAction("note") EXCEPT !.pitch = p, !.duration = d, !.dotted = dot, !.tied = tie]

RestAction(d, dot) == [BaseAction("rest") EXCEPT !.duration = d, !.dotted = dot]

SustainPedalDownAction == BaseAction("sustainPedalDown")

SustainPedalUpAction == BaseAction("sustainPedalUp")

SetBPMAction(b) == [BaseAction("setBPM") EXCEPT !.bpm = b]

SetKeySignatureAction(k) == [BaseAction("setKeySignature") EXCEPT !.keySignature = k]

SetTimeSignatureAction(n, u) ==
    [BaseAction("setTimeSignature") EXCEPT !.timeSignature = TimeSig(n, u)]

AutoSustainPedalAction(on) == [BaseAction("autoSustainPedal") EXCEPT !.pedalOnEveryBar = on]

\* an action group; hasStartPosition = FALSE stands for startPositionInBar === undefined
ActionGroup(as) == [actions |-> as, hasStartPosition |-> FALSE, startPositionInBar |-> 0]

ActionGroupAt(as, p) == [actions |-> as, hasStartPosition |-> TRUE, startPositionInBar |-> p]

Bar(pedal, partial, gs) ==
    [withSustainPedal |-> pedal, partialLength |-> partial, actionGroups |-> gs]

isNoteActionGroup(g) ==
    Len(g.actions) > 0 /\ \A i \in 1..Len(g.actions) : g.actions[i].type = "note"

isRestActionGroup(g) == Len(g.actions) = 1 /\ g.actions[1].type = "rest"

isSustainPedalActionGroup(g) ==
    Len(g.actions) = 1 /\ g.actions[1].type \in {"sustainPedalUp", "sustainPedalDown"}

isSequencableActionGroup(g) ==
    isNoteActionGroup(g) \/ isRestActionGroup(g) \/ isSustainPedalActionGroup(g)

hasTiedNotes(currentActionGroup, nextActionGroup) ==
    LET IsTied(a) == a.tied
        k == FindIndex(currentActionGroup.actions, IsTied)
    IN  IF k = 0 THEN FALSE
        ELSE \E i \in 1..Len(nextActionGroup.actions) :
                nextActionGroup.actions[i].pitch = currentActionGroup.actions[k].pitch

(***************************************************************************)
(* Duration arithmetic (utils/music)                                       *)
(***************************************************************************)
quarterNoteDurationInMs(bpm) == 60000 \div bpm

\* a bar that has no nominal length and is as long as what is written in it
BarWithoutNominalLength(bpm, timeSignature) == 0

getBarLengthInMsForTimeSignature(bpm, timeSignature) ==
    (timeSignature.beatsPerBar * quarterNoteDurationInMs(bpm) * timeSignature.beatUnit) \div 4

isNoteWithDuration(n) == n.type = "note"

\* (quarter / (duration / 4)) * (dotted ? 1.5 : 1)
OwnDurationInMs(bpm, n) ==
    LET plain == (quarterNoteDurationInMs(bpm) * 4) \div n.duration
    IN  IF n.dotted THEN (plain * 3) \div 2 ELSE plain

RECURSIVE getTotalNoteOrRestDurationInMs(_, _, _, _)
\* hasNext = FALSE stands for an omitted nextNoteWithDuration argument
getTotalNoteOrRestDurationInMs(bpm, n, hasNext, next) ==
    OwnDurationInMs(bpm, n)
      + (IF isNoteWithDuration(n) /\ n.tied /\ hasNext /\ next.pitch = n.pitch
         THEN getTotalNoteOrRestDurationInMs(bpm, next, FALSE, next)
         ELSE 0)

getLengthOfLongestActionInMs(bpm, actions) ==
    SeqMax([i \in 1..Len(actions) |->
              IF actions[i].type \in {"note", "rest"}
              THEN getTotalNoteOrRestDurationInMs(bpm, actions[i], FALSE, actions[i])
              ELSE 0])

getBarStartTimeInSequenceForNonLinearlySequencedActionGroupInBar(bpm, g) ==
    quarterNoteDurationInMs(bpm) * (g.startPositionInBar - 1)

\* adjustNotesToKeySignature applied to one pitch
KeySignatureAdjustments(k) ==
    CASE k = "C"  -> <<>>
      [] k = "G"  -> <<"F">>
      [] k = "D"  -> <<"F", "C">>
      [] k = "A"  -> <<"F", "C", "G">>
      [] k = "E"  -> <<"F", "C", "G", "D">>
      [] k = "B"  -> <<"F", "C", "G", "D", "A">>
      [] k = "F"  -> <<"B">>
      [] k = "Bb" -> <<"B", "E">>
      [] k = "Eb" -> <<"B", "E", "A">>
      [] k = "Ab" -> <<"B", "E", "A", "D">>
      [] k \in {"Db", "C#"} -> <<"B", "E", "A", "D", "G">>
      [] OTHER -> <<"B", "E", "A", "D", "G", "C">>

KeySignatureAccidental(k) ==
    IF k = "C" THEN "" ELSE IF k \in {"G", "D", "A", "E", "B"} THEN "#" ELSE "b"

adjustNotesToKeySignature(keySignature, note) ==
    IF note.acc # "" THEN note
    ELSE IF \E i \in 1..Len(KeySignatureAdjustments(keySignature)) :
                KeySignatureAdjustments(keySignature)[i] = note.letter
         THEN [note EXCEPT !.acc = KeySignatureAccidental(keySignature)]
         ELSE note

(***************************************************************************)
(* initSequence: bars -> sorted sequenced action groups, total duration    *)
(***************************************************************************)
timePeriodInWhichSustainPedalGoesUpBeforeNextBarInMs == 100

AllActionsOfBar(bar) == Flatten([i \in 1..Len(bar.actionGroups) |-> bar.actionGroups[i].actions])

\* a bar compiled with the value in effect before it, whatever it sets
ValueBeforeTheBar(actions, t, default) == default

\* the value a local set by every action of the given type ends with
LastActionOfType(actions, t, default) ==
    LET IsT(a) == a.type = t
        k == FindLastIndex(actions, IsT)
    IN  IF k = 0 THEN default ELSE actions[k]

\* bar.actionGroups.filter: note groups with startPositionInBar < 1 are dropped
HasValidStartPosition(g) ==
    ~(isNoteActionGroup(g) /\ g.hasStartPosition /\ g.startPositionInBar < 1)

IsNonLinear(g) == isNoteActionGroup(g) /\ g.hasStartPosition

totalLengthOfLinearlySequencedNotesInBar(bpm, groups) ==
    SeqSum([i \in 1..Len(groups) |->
              IF IsNonLinear(groups[i]) THEN 0
              ELSE getLengthOfLongestActionInMs(bpm, groups[i].actions)])

\* a bar length that takes no account of explicitly positioned groups
NoNonLinearlySequencedNoteInBar(bpm, groups) == 0

\* toSorted by startPositionInBar (stable), then findLast: the last group in
\* bar order among those with the greatest start position
noteEndTimeOfLatestNonLinearlySequencedNoteInBar(bpm, groups) ==
    LET idx == {i \in 1..Len(groups) : IsNonLinear(groups[i])}
    IN  IF idx = {} THEN 0
        ELSE LET k == CHOOSE i \in idx :
                        \A j \in idx :
                            \/ groups[j].startPositionInBar < groups[i].startPositionInBar
                            \/ (groups[j].startPositionInBar = groups[i].startPositionInBar
                                /\ j <= i)
             IN  getBarStartTimeInSequenceForNonLinearlySequencedActionGroupInBar(bpm, groups[k])
                   + getLengthOfLongestActionInMs(bpm, groups[k].actions)

Sequenced(g, barIndex, start, dur) ==
    [sequenceNumber |-> 0, barIndex |-> barIndex, startTimeInSequenceInMs |-> start,
     durationInMs |-> dur, actions |-> g.actions,
     hasStartPosition |-> g.hasStartPosition, startPositionInBar |-> g.startPositionInBar]

RECURSIVE SequenceLinearly(_, _, _, _, _)
\* the .map over the sequencable groups of a bar, with its running cursor
\* currentItemInBarStartTimeInSequence
SequenceLinearly(bpm, groups, barIndex, barStart, cursor) ==
    IF groups = <<>> THEN <<>>
    ELSE LET g == Head(groups)
             durationInMs == getLengthOfLongestActionInMs(bpm, g.actions)
         IN  IF IsNonLinear(g)
             THEN <<Sequenced(g, barIndex,
                      barStart + getBarStartTimeInSequenceForNonLinearlySequencedActionGroupInBar(bpm, g),
                      durationInMs)>>
                    \o SequenceLinearly(bpm, Tail(groups), barIndex, barStart, cursor)
             ELSE <<Sequenced(g, barIndex, barStart + cursor, durationInMs)>>
                    \o SequenceLinearly(bpm, Tail(groups), barIndex, barStart,
                                        cursor + durationInMs)

\* the locals of initSequence that live across the bars.forEach
CompileStart(bpm0) ==
    [bpm |-> bpm0, timeSignature |-> TimeSig(4, 4), pedalOnEveryBar |-> FALSE,
     currentBarStartTimeInSequence |-> 0,
     hasAutoSustainPedalAction |-> FALSE, autoSustainPedalAction |-> BaseAction("autoSustainPedal"),
     lastSequencableActionGroupInPreviousBarHasTiedNote |-> FALSE,
     barStartTimes |-> <<>>,
     sequencedActionGroups |-> <<>>]

\* one iteration of bars.forEach in initSequence
CompileBar(st, bars, i) ==
    LET bar == bars[i]
        barIndex == i - 1
        all == AllActionsOfBar(bar)
        IsAuto(a) == a.type = "autoSustainPedal"
        hasAuto == st.hasAutoSustainPedalAction \/ Exists(all, IsAuto)
        auto == IF st.hasAutoSustainPedalAction THEN st.autoSustainPedalAction
                ELSE IF Exists(all, IsAuto) THEN all[FindIndex(all, IsAuto)]
                ELSE st.autoSustainPedalAction
        bpm == LastActionOfType(all, "setBPM", SetBPMAction(st.bpm)).bpm
        timeSignature ==
            LastActionOfType(all, "setTimeSignature",
                [BaseAction("setTimeSignature") EXCEPT !.timeSignature = st.timeSignature]).timeSignature
        nominalBarLengthInMs == getBarLengthInMsForTimeSignature(bpm, timeSignature)
        groups == SelectSeq(bar.actionGroups, HasValidStartPosition)
        totalLengthOfNotesInBar ==
            Max(totalLengthOfLinearlySequencedNotesInBar(bpm, groups),
                noteEndTimeOfLatestNonLinearlySequencedNoteInBar(bpm, groups))
        totalBarLengthInMs ==
            IF bar.partialLength THEN totalLengthOfNotesInBar
            ELSE Max(nominalBarLengthInMs, totalLengthOfNotesInBar)
        barStart == st.currentBarStartTimeInSequence
        NotSequencable(g) == ~isSequencableActionGroup(g)
        nonSeq == SelectSeq(groups, NotSequencable)
        nonSequencableActionGroupsInBar ==
            [k \in 1..Len(nonSeq) |-> Sequenced(nonSeq[k], barIndex, barStart, 0)]
        sequencableActionGroupsInBar ==
            SequenceLinearly(bpm, SelectSeq(groups, isSequencableActionGroup),
                             barIndex, barStart, 0)
        pedalOnEveryBar == IF hasAuto THEN auto.pedalOnEveryBar ELSE st.pedalOnEveryBar
        withPedal == bar.withSustainPedal \/ pedalOnEveryBar
        sustainPedalDownAction ==
            Sequenced(ActionGroup(<<SustainPedalDownAction>>), barIndex, barStart, 0)
        sustainPedalUpAction ==
            Sequenced(ActionGroup(<<SustainPedalUpAction>>), barIndex,
                      barStart + totalBarLengthInMs
                        - timePeriodInWhichSustainPedalGoesUpBeforeNextBarInMs, 0)
        \* the next bar has not been filtered yet when it is looked at
        nextFirst == IF i + 1 <= Len(bars)
                     THEN FindIndex(bars[i + 1].actionGroups, isSequencableActionGroup)
                     ELSE 0
        nSeq == Len(sequencableActionGroupsInBar)
        lastSequencableActionGroupInThisBarHasTiedNote ==
            /\ nextFirst # 0
            /\ isNoteActionGroup(bars[i + 1].actionGroups[nextFirst])
            /\ nSeq > 0
            /\ isNoteActionGroup(sequencableActionGroupsInBar[nSeq])
            /\ hasTiedNotes(sequencableActionGroupsInBar[nSeq],
                            bars[i + 1].actionGroups[nextFirst])
        pushed ==
            IF withPedal
            THEN nonSequencableActionGroupsInBar
                   \o (IF ~st.lastSequencableActionGroupInPreviousBarHasTiedNote
                       THEN <<sustainPedalDownAction>> ELSE <<>>)
                   \o sequencableActionGroupsInBar
                   \o (IF ~lastSequencableActionGroupInThisBarHasTiedNote
                       THEN <<sustainPedalUpAction>> ELSE <<>>)
            ELSE nonSequencableActionGroupsInBar \o sequencableActionGroupsInBar
    IN  [bpm |-> bpm, timeSignature |-> timeSignature, pedalOnEveryBar |-> pedalOnEveryBar,
         currentBarStartTimeInSequence |-> barStart + totalBarLengthInMs,
         hasAutoSustainPedalAction |-> hasAuto, autoSustainPedalAction |-> auto,
         lastSequencableActionGroupInPreviousBarHasTiedNote |->
            IF withPedal THEN lastSequencableActionGroupInThisBarHasTiedNote
            ELSE st.lastSequencableActionGroupInPreviousBarHasTiedNote,
         barStartTimes |-> Append(st.barStartTimes, barStart),
         sequencedActionGroups |-> st.sequencedActionGroups \o pushed]

RECURSIVE CompileBars(_, _, _)
CompileBars(st, bars, i) ==
    IF i > Len(bars) THEN st ELSE CompileBars(CompileBar(st, bars, i), bars, i + 1)

RECURSIVE InsertSorted(_, _)
\* stable insertion from the right: g goes before the first element that
\* starts strictly later
InsertSorted(sorted, g) ==
    IF sorted = <<>> THEN <<g>>
    ELSE IF sorted[Len(sorted)].startTimeInSequenceInMs <= g.startTimeInSequenceInMs
         THEN Append(sorted, g)
         ELSE Append(InsertSorted(SubSeq(sorted, 1, Len(sorted) - 1), g), sorted[Len(sorted)])

\* the groups in the order in which the bars pushed them
InPushOrder(gs) == gs

RECURSIVE SortByStartTime(_)
\* toSorted((a, b) => a.startTimeInSequenceInMs - b.startTimeInSequenceInMs), stable
SortByStartTime(gs) ==
    IF gs = <<>> THEN <<>>
    ELSE InsertSorted(SortByStartTime(SubSeq(gs, 1, Len(gs) - 1)), gs[Len(gs)])

\* the .map after toSorted: sequenceNumber is the position in the sorted list
NumberInOrder(sorted) == [k \in 1..Len(sorted) |-> [sorted[k] EXCEPT !.sequenceNumber = k - 1]]

\* the locals of initSequence after the bars.forEach
CompileAll(bars, bpm0) == CompileBars(CompileStart(bpm0), bars, 1)

sortedSequencedActionGroups(bars, bpm0) ==
    NumberInOrder(SortByStartTime(CompileAll(bars, bpm0).sequencedActionGroups))

\* totalSequenceTimeRef.current for a non-empty compiled list
TotalTime(currentBarStartTimeInSequence, lastSequencedActionGroup) ==
    Max(currentBarStartTimeInSequence,
        lastSequencedActionGroup.startTimeInSequenceInMs + lastSequencedActionGroup.durationInMs)

totalSequenceTime(bars, bpm0) ==
    LET Total(st, sorted) == TotalTime(st.currentBarStartTimeInSequence, sorted[Len(sorted)])
        Sorted(st) == Total(st, NumberInOrder(SortByStartTime(st.sequencedActionGroups)))
    IN  Sorted(CompileAll(bars, bpm0))

(***************************************************************************)
(* The transport: state of one useSequencer instance                       *)
(***************************************************************************)
VARIABLES
    sequencerHasBeenInitializedRef,
    compiledLists,               \* every list initSequence has produced, oldest first
    sequencedActionGroupsRef,    \* index into compiledLists of the current list, 0 = []
    currentSequenceTimeRef,
    currentSequenceBarIndexRef,
    totalSequenceTimeRef,
    sequenceIsPlayingRef,
    bpmRef,
    keySignatureRef,
    sequenceFrameTimeoutRef,     \* id of a tick timer, 0 = null
    isPlaying,                   \* the React state behind setIsPlaying
    closures,                    \* isPlaying values captured by the playSequence closures handed out
    timers,                      \* pending setTimeout callbacks, in creation order
    trace,                       \* history: calls, dispatches and the events given to onEvent
    calls,                       \* history: number of control calls made
    inputs                       \* history of the initSequence calls: the bars given, the bars
                                 \* as written in the notation, bpmRef at the call and the index
                                 \* of the list it compiled (0 = none)

vars == <<sequencerHasBeenInitializedRef, compiledLists, sequencedActionGroupsRef,
          currentSequenceTimeRef, currentSequenceBarIndexRef, totalSequenceTimeRef,
          sequenceIsPlayingRef, bpmRef, keySignatureRef, sequenceFrameTimeoutRef,
          isPlaying, closures, timers, trace, calls, inputs>>

sequenceFrameRate == 10

sequenceFrameLength == 1000 \div sequenceFrameRate

DefaultBPM == 120

\* currentSequenceBarIndexRef.current === null
NullBarIndex == -1

\* the refs and pending callbacks as one value, threaded through nested calls
Machine ==
    [initialized |-> sequencerHasBeenInitializedRef, lists |-> compiledLists,
     current |-> sequencedActionGroupsRef, clock |-> currentSequenceTimeRef,
     barIndex |-> currentSequenceBarIndexRef, total |-> totalSequenceTimeRef,
     playing |-> sequenceIsPlayingRef, bpm |-> bpmRef, key |-> keySignatureRef,
     frameTimeout |-> sequenceFrameTimeoutRef, isPlaying |-> isPlaying,
     closures |-> closures, timers |-> timers, trace |-> trace, inputs |-> inputs]

\* m is evaluated once and its fields are written to the variables
Commit(m) ==
    \E r \in {m} :
        /\ sequencerHasBeenInitializedRef' = r.initialized
        /\ compiledLists' = r.lists
        /\ sequencedActionGroupsRef' = r.current
        /\ currentSequenceTimeRef' = r.clock
        /\ currentSequenceBarIndexRef' = r.barIndex
        /\ totalSequenceTimeRef' = r.total
        /\ sequenceIsPlayingRef' = r.playing
        /\ bpmRef' = r.bpm
        /\ keySignatureRef' = r.key
        /\ sequenceFrameTimeoutRef' = r.frameTimeout
        /\ isPlaying' = r.isPlaying
        /\ closures' = r.closures
        /\ timers' = r.timers
        /\ trace' = r.trace
        /\ inputs' = r.inputs

\* sequencedActionGroupsRef.current
CurrentList(m) == IF m.current = 0 THEN <<>> ELSE m.lists[m.current]

\* an entry of the history; gen is the list the entry's group belongs to
\* start is the compiled start time of the group, at the value of the clock
Entry(type, gen, sn, index, start, pitch, delay, at) ==
    [type |-> type, gen |-> gen, sequenceNumber |-> sn, index |-> index,
     start |-> start, pitch |-> pitch, delay |-> delay, at |-> at, playing |-> FALSE]

\* every entry also records sequenceIsPlayingRef.current as it is when made
Emit(m, e) == [m EXCEPT !.trace = Append(@, [e EXCEPT !.playing = m.playing])]

ControlEvent(m, type) == Entry(type, m.current, 0, 0, 0, NoPitch, 0, m.clock)

\* setIsPlaying(v): the next render hands out closures that captured v
SetIsPlaying(m, v) == [m EXCEPT !.isPlaying = v, !.closures = @ \cup {v}]

\* setTimeout: ids are only kept for tick timers; a fresh id is one no pending
\* timer has and the ref does not hold
FreshTimerId(m) ==
    CHOOSE id \in 1..(Len(m.timers) + 2) :
        /\ id # m.frameTimeout
        /\ \A k \in 1..Len(m.timers) : m.timers[k].id # id
        /\ \A j \in 1..(id - 1) :
              j = m.frameTimeout \/ \E k \in 1..Len(m.timers) : m.timers[k].id = j

\* a pending callback with what its closure holds; setAt is the value of the
\* clock when it was set
Timer(id, kind, delay, gen, sn, index, setAt) ==
    [id |-> id, kind |-> kind, remaining |-> delay, delay |-> delay,
     gen |-> gen, sequenceNumber |-> sn, index |-> index, setAt |-> setAt]

SetTimeout(m, t) == [m EXCEPT !.timers = Append(@, t)]

\* a clearTimeout that leaves the callback pending
KeepTimeout(m, id) == m

\* a clearTimeout that drops every pending callback, the ends of the notes and
\* rests that are sounding included
ClearEveryTimeout(m, id) == [m EXCEPT !.timers = <<>>]

\* clearTimeout(id)
ClearTimeout(m, id) ==
    LET Keep(t) == t.id # id IN [m EXCEPT !.timers = SelectSeq(@, Keep)]

(***************************************************************************)
(* stopSequence, sequenceLoop                                              *)
(***************************************************************************)
\* a stop that leaves the clock where it is
StopWithoutRewind(m) ==
    IF ~m.initialized THEN m
    ELSE LET m1 == SetIsPlaying([m EXCEPT !.playing = FALSE, !.barIndex = 0], FALSE)
             m2 == IF m1.frameTimeout # 0
                   THEN [ClearTimeout(m1, m1.frameTimeout) EXCEPT !.frameTimeout = 0]
                   ELSE m1
         IN  Emit(m2, ControlEvent(m2, "sequenceEnd"))

\* a stop without the guard on sequencerHasBeenInitializedRef
StopUnguarded(m) ==
    LET m1 == SetIsPlaying([m EXCEPT !.playing = FALSE, !.clock = 0, !.barIndex = 0], FALSE)
        m2 == IF m1.frameTimeout # 0
              THEN [ClearTimeout(m1, m1.frameTimeout) EXCEPT !.frameTimeout = 0]
              ELSE m1
    IN  Emit(m2, ControlEvent(m2, "sequenceEnd"))

stopSequence(m) ==
    IF ~m.initialized THEN m
    ELSE LET m1 == SetIsPlaying([m EXCEPT !.playing = FALSE, !.clock = 0, !.barIndex = 0], FALSE)
             m2 == IF m1.frameTimeout # 0
                   THEN [ClearTimeout(m1, m1.frameTimeout) EXCEPT !.frameTimeout = 0]
                   ELSE m1
         IN  Emit(m2, ControlEvent(m2, "sequenceEnd"))

RECURSIVE ScheduleFrame(_, _, _)
\* sequencedActionGroupsForFrame.forEach: barStart detection and one dispatch
\* timer per group
ScheduleFrame(m, groups, currentSequenceTime) ==
    IF groups = <<>> THEN m
    ELSE LET g == Head(groups)
             m1 == IF m.barIndex = NullBarIndex \/ m.barIndex = 0 \/ g.barIndex > m.barIndex
                   THEN Emit(m, Entry("barStart", m.current, g.sequenceNumber, g.barIndex,
                                      g.startTimeInSequenceInMs, NoPitch, 0, m.clock))
                   ELSE m
             m2 == [m1 EXCEPT !.barIndex = g.barIndex]
             m3 == SetTimeout(m2, Timer(0, "dispatch",
                                        g.startTimeInSequenceInMs - currentSequenceTime,
                                        m.current, g.sequenceNumber, 0, currentSequenceTime))
         IN  ScheduleFrame(m3, Tail(groups), currentSequenceTime)

\* a frame window that reaches one frame back
FrameWindowReachingBack(m) ==
    LET InFrame(g) == /\ g.startTimeInSequenceInMs >= m.clock - sequenceFrameLength
                      /\ g.startTimeInSequenceInMs < m.clock + sequenceFrameLength
    IN  SelectSeq(CurrentList(m), InFrame)

sequencedActionGroupsForFrame(m) ==
    LET InFrame(g) == /\ g.startTimeInSequenceInMs >= m.clock
                      /\ g.startTimeInSequenceInMs < m.clock + sequenceFrameLength
    IN  SelectSeq(CurrentList(m), InFrame)

\* a loop that stops scheduling at the end of the sequence but never calls
\* stopSequence
LoopWithoutEnd(m) ==
    LET sequenceIsPlaying == m.playing
        currentSequenceTime == m.clock
        totalSequenceTimeNow == m.total
        m1 == ScheduleFrame(m, sequencedActionGroupsForFrame(m), currentSequenceTime)
        id == FreshTimerId(m1)
    IN  IF sequenceIsPlaying /\ currentSequenceTime < totalSequenceTimeNow
        THEN [SetTimeout(m1, Timer(id, "tick", sequenceFrameLength, m1.current, 0, 0,
                                   currentSequenceTime))
                EXCEPT !.frameTimeout = id]
        ELSE m1

sequenceLoop(m) ==
    LET sequenceIsPlaying == m.playing
        currentSequenceTime == m.clock
        totalSequenceTimeNow == m.total
        m1 == ScheduleFrame(m, sequencedActionGroupsForFrame(m), currentSequenceTime)
        id == FreshTimerId(m1)
        m2 == IF sequenceIsPlaying /\ currentSequenceTime < totalSequenceTimeNow
              THEN [SetTimeout(m1, Timer(id, "tick", sequenceFrameLength, m1.current, 0, 0,
                                         currentSequenceTime))
                      EXCEPT !.frameTimeout = id]
              ELSE m1
    IN  IF currentSequenceTime >= totalSequenceTimeNow THEN stopSequence(m2) ELSE m2

(***************************************************************************)
(* playAction                                                              *)
(***************************************************************************)
\* Array.prototype.slice(from) for a 0-based from that may be negative
SliceFrom(list, from) ==
    IF from >= 0 THEN SubSeq(list, from + 1, Len(list))
    ELSE SubSeq(list, Max(Len(list) + from + 1, 1), Len(list))

\* the delay playAction gives the noteEnd timer of a note action; an undefined
\* noteDurationInMs makes setTimeout fire without delay
noteDurationInMs(bpm, note, list, currentIndex) ==
    LET rest == SliceFrom(list, currentIndex)
        FirstIsNote(g) == Len(g.actions) > 0 /\ g.actions[1].type = "note"
        SamePitch(a) == a.type = "note" /\ a.pitch = note.pitch
        k == FindIndex(rest, FirstIsNote)
        j == IF k = 0 THEN 0 ELSE FindIndex(rest[k].actions, SamePitch)
    IN  IF note.tied
        THEN IF Exists(rest, isNoteActionGroup) /\ j # 0
             THEN getTotalNoteOrRestDurationInMs(bpm, note, TRUE, rest[k].actions[j])
             ELSE 0
        ELSE getTotalNoteOrRestDurationInMs(bpm, note, FALSE, note)

\* the look-back of playAction: the last Note group before currentIndex ties
\* the pitch forward
isTiedFromPreviousNoteGroup(list, currentIndex, pitch) ==
    /\ currentIndex > 0
    /\ LET before == SubSeq(list, 1, currentIndex)
           k == FindLastIndex(before, isNoteActionGroup)
       IN  /\ k # 0
           /\ \E i \in 1..Len(before[k].actions) :
                 /\ before[k].actions[i].type = "note"
                 /\ before[k].actions[i].tied
                 /\ before[k].actions[i].pitch = pitch

\* playAction(action, sequenceNumber), action being action index of group
\* sequenceNumber of list gen
playAction(m, gen, sequenceNumber, index) ==
    IF ~m.initialized THEN m
    ELSE
    LET HasNumber(g) == g.sequenceNumber = sequenceNumber
        currentIndex == FindIndex(CurrentList(m), HasNumber) - 1
        group == m.lists[gen][sequenceNumber + 1]
        action == group.actions[index]
        start == group.startTimeInSequenceInMs
    IN  CASE action.type = "note" ->
               LET pitch == adjustNotesToKeySignature(m.key, action.pitch)
                   m1 == [m EXCEPT !.lists[gen][sequenceNumber + 1].actions[index].pitch = pitch]
                   note == [action EXCEPT !.pitch = pitch]
                   delay == noteDurationInMs(m1.bpm, note, CurrentList(m1), currentIndex)
               IN  IF isTiedFromPreviousNoteGroup(CurrentList(m1), currentIndex, pitch)
                   THEN m1
                   ELSE SetTimeout(
                          Emit(m1, Entry("noteStart", gen, sequenceNumber, index, start,
                                         pitch, delay, m1.clock)),
                          Timer(0, "noteEnd", delay, gen, sequenceNumber, index, m1.clock))
          [] action.type = "rest" ->
               LET delay == getTotalNoteOrRestDurationInMs(m.bpm, action, FALSE, action)
               IN  SetTimeout(
                     Emit(m, Entry("restStart", gen, sequenceNumber, index, start,
                                   NoPitch, delay, m.clock)),
                     Timer(0, "restEnd", delay, gen, sequenceNumber, index, m.clock))
          [] action.type \in {"sustainPedalUp", "sustainPedalDown"} ->
               Emit(m, Entry(action.type, gen, sequenceNumber, index, start, NoPitch, 0, m.clock))
          [] action.type = "setBPM" -> [m EXCEPT !.bpm = action.bpm]
          [] action.type = "setKeySignature" -> [m EXCEPT !.key = action.keySignature]
          [] OTHER -> m

RECURSIVE PlayActions(_, _, _, _)
\* actions.forEach((action) => playAction(action, sequenceNumber)) from index on
PlayActions(m, gen, sequenceNumber, index) ==
    IF index > Len(m.lists[gen][sequenceNumber + 1].actions) THEN m
    ELSE PlayActions(playAction(m, gen, sequenceNumber, index), gen, sequenceNumber, index + 1)

(***************************************************************************)
(* Scores given to initSequence.  In the short scores a leading bpm=600    *)
(* directive makes a quarter note 100 ms and an eighth 50 ms, so a whole   *)
(* playthrough takes a few frames and two groups can fall in one frame.    *)
(* The notation in the comments is what generateSequenceFromNotation turns *)
(* into these bars.                                                        *)
(***************************************************************************)
C4 == Pitch("C", "", 4)

D4 == Pitch("D", "", 4)

E4 == Pitch("E", "", 4)

Fast == ActionGroup(<<SetBPMAction(600)>>)

Single(p, d, tie) == ActionGroup(<<NoteAction(p, d, FALSE, tie)>>)

\* "bpm=600 > C4~:4 | > C4:4"
ScoreTieEqual ==
    <<Bar(FALSE, TRUE, <<Fast, Single(C4, 4, TRUE)>>), Bar(FALSE, TRUE, <<Single(C4, 4, FALSE)>>)>>

\* "bpm=600 > C4~:4 | > C4:8"
ScoreTieUnequal ==
    <<Bar(FALSE, TRUE, <<Fast, Single(C4, 4, TRUE)>>), Bar(FALSE, TRUE, <<Single(C4, 8, FALSE)>>)>>

\* "bpm=600 > C4~:8 C4~:8 C4:8"
ScoreTieChain ==
    <<Bar(FALSE, TRUE, <<Fast, Single(C4, 8, TRUE), Single(C4, 8, TRUE), Single(C4, 8, FALSE)>>)>>

\* "bpm=600 > C4~:8 D4:8"
ScoreTieNoTarget ==
    <<Bar(FALSE, TRUE, <<Fast, Single(C4, 8, TRUE), Single(D4, 8, FALSE)>>)>>

\* "bpm=600 > C4~:8"
ScoreTieAlone == <<Bar(FALSE, TRUE, <<Fast, Single(C4, 8, TRUE)>>)>>

\* "bpm=600 > [_ C4:8 D4:8 | > ##:8 E4:8 _]"
ScoreMixed ==
    <<Bar(FALSE, TRUE, <<Fast, ActionGroup(<<SustainPedalDownAction>>), Single(C4, 8, FALSE),
                         Single(D4, 8, FALSE)>>),
      Bar(FALSE, TRUE, <<ActionGroup(<<RestAction(8, FALSE)>>), Single(E4, 8, FALSE),
                         ActionGroup(<<SustainPedalUpAction>>)>>)>>

\* "bpm=600 > [_ C4:4 _]": the pedal-up marker starts where the sequence ends
ScoreTrailingPedal ==
    <<Bar(FALSE, TRUE, <<Fast, ActionGroup(<<SustainPedalDownAction>>), Single(C4, 4, FALSE),
                         ActionGroup(<<SustainPedalUpAction>>)>>)>>

\* "bpm=120 C4~:4 | C4:4"
ScoreTwoBarTie ==
    <<Bar(FALSE, FALSE, <<ActionGroup(<<SetBPMAction(120)>>), Single(C4, 4, TRUE)>>),
      Bar(FALSE, FALSE, <<Single(C4, 4, FALSE)>>)>>

\* "bpm=120 C4~:2 | C4:4"
ScoreTwoBarTieUnequal ==
    <<Bar(FALSE, FALSE, <<ActionGroup(<<SetBPMAction(120)>>), Single(C4, 2, TRUE)>>),
      Bar(FALSE, FALSE, <<Single(C4, 4, FALSE)>>)>>

\* "bpm=120 C4~:4 C4~:4 C4:4"
ScoreThreeTied ==
    <<Bar(FALSE, FALSE, <<ActionGroup(<<SetBPMAction(120)>>), Single(C4, 4, TRUE),
                          Single(C4, 4, TRUE), Single(C4, 4, FALSE)>>)>>

\* "bpm=120 C4~:4 D4:4"
ScoreTieToOtherPitch ==
    <<Bar(FALSE, FALSE, <<ActionGroup(<<SetBPMAction(120)>>), Single(C4, 4, TRUE),
                          Single(D4, 4, FALSE)>>)>>

\* "bpm=600 > C4:8 D4:8 | > E4:8"
ScoreShort ==
    <<Bar(FALSE, TRUE, <<Fast, Single(C4, 8, FALSE), Single(D4, 8, FALSE)>>),
      Bar(FALSE, TRUE, <<Single(E4, 8, FALSE)>>)>>

\* the scores of the runs with pause, stop and re-initialisation
Scores == <<ScoreShort>>

\* the scores of the uninterrupted playthroughs
PlaythroughScores ==
    <<ScoreTwoBarTie, ScoreTwoBarTieUnequal, ScoreThreeTied, ScoreTieToOtherPitch,
      ScoreTieEqual, ScoreTieUnequal, ScoreTieChain, ScoreTieNoTarget, ScoreTieAlone,
      ScoreMixed, ScoreTrailingPedal>>

(***************************************************************************)
(* Bounds                                                                  *)
(***************************************************************************)
\* control calls (initSequence, playSequence, pauseSequence, stopSequence) in a run
MaxCalls == 4

\* initSequence calls in a run
MaxInits == 2

\* time advances to the next timer expiry or by a frame / StepsPerFrame
StepsPerFrame == 2

(***************************************************************************)
(* Initial state: a freshly mounted hook                                   *)
(***************************************************************************)
Init ==
    /\ sequencerHasBeenInitializedRef = FALSE
    /\ compiledLists = <<>>
    /\ sequencedActionGroupsRef = 0
    /\ currentSequenceTimeRef = 0
    /\ currentSequenceBarIndexRef = NullBarIndex
    /\ totalSequenceTimeRef = 0
    /\ sequenceIsPlayingRef = FALSE
    /\ bpmRef = DefaultBPM
    /\ keySignatureRef = "C"
    /\ sequenceFrameTimeoutRef = 0
    /\ isPlaying = FALSE
    /\ closures = {FALSE}
    /\ timers = <<>>
    /\ trace = <<>>
    /\ calls = 0
    /\ inputs = <<>>

\* a control call, noted in the history; index 1 marks a call that got past its guard
Call(m, type, effective) ==
    Emit(m, Entry(type, m.current, 0, IF effective THEN 1 ELSE 0, 0, NoPitch, 0, m.clock))

(***************************************************************************)
(* The control surface                                                     *)
(***************************************************************************)
\* With an empty compiled list lastSequencedActionGroup is undefined and reading
\* its durationInMs (767) throws before any ref is written (773-775).
initSequence(m, bars) ==
    LET Noted(st, compiled) ==
            [m EXCEPT !.inputs =
                Append(@, [barsForSequence |-> bars, bars |-> bars, bpm |-> m.bpm,
                           barStarts |-> Append(st.barStartTimes,
                                                st.currentBarStartTimeInSequence),
                           list |-> IF compiled = <<>> THEN 0 ELSE Len(m.lists) + 1])]
        Thrown(m1) == Emit(m1, ControlEvent(m1, "TypeError"))
        Install(st, compiled) ==
            IF compiled = <<>>
            THEN Thrown(Noted(st, compiled))
            ELSE [Noted(st, compiled) EXCEPT
                    !.lists = Append(@, compiled),
                    !.current = Len(m.lists) + 1,
                    !.total = TotalTime(st.currentBarStartTimeInSequence,
                                        compiled[Len(compiled)]),
                    !.initialized = TRUE]
        Sorted(st) == Install(st, NumberInOrder(SortByStartTime(st.sequencedActionGroups)))
    IN  Sorted(CompileAll(bars, m.bpm))

\* playSequence as the closure that captured isPlaying = captured runs it
playSequence(m, captured) ==
    IF ~m.initialized \/ captured \/ Len(CurrentList(m)) = 0 THEN m
    ELSE LET currentSequenceTime == m.clock
             m1 == SetIsPlaying([m EXCEPT !.playing = TRUE], TRUE)
             m2 == IF currentSequenceTime = 0 THEN Emit(m1, ControlEvent(m1, "sequenceStart"))
                   ELSE m1
         IN  sequenceLoop(m2)

\* a pause that also rewinds the clock
PauseAndRewind(m) ==
    IF ~m.initialized \/ ~m.playing THEN m
    ELSE LET m1 == SetIsPlaying([m EXCEPT !.playing = FALSE, !.clock = 0], FALSE)
         IN  IF m1.frameTimeout # 0
             THEN [ClearTimeout(m1, m1.frameTimeout) EXCEPT !.frameTimeout = 0]
             ELSE m1

pauseSequence(m) ==
    IF ~m.initialized \/ ~m.playing THEN m
    ELSE LET m1 == SetIsPlaying([m EXCEPT !.playing = FALSE], FALSE)
         IN  IF m1.frameTimeout # 0
             THEN [ClearTimeout(m1, m1.frameTimeout) EXCEPT !.frameTimeout = 0]
             ELSE m1

\* initSequence(bars, onEvent) with bars freshly built, as initSequenceWithNotation does
InitSequenceWith(bars) ==
    /\ Commit(initSequence(Call(Machine, "initSequence()", TRUE), bars))
    /\ calls' = calls + 1

\* playSequence() through a closure that captured isPlaying = captured
PlaySequenceThrough(captured) ==
    /\ Commit(playSequence(
                Call(Machine, "playSequence()",
                     sequencerHasBeenInitializedRef /\ ~captured
                       /\ Len(CurrentList(Machine)) # 0),
                captured))
    /\ calls' = calls + 1

InitSequence ==
    /\ calls < MaxCalls
    /\ Len(compiledLists) < MaxInits
    /\ \E i \in DOMAIN Scores : InitSequenceWith(Scores[i])

\* playSequence() as returned by the latest render of the hook
PlaySequence ==
    /\ calls < MaxCalls
    /\ PlaySequenceThrough(isPlaying)

\* playSequence() through a reference obtained at an earlier render, such as
\* the controller createSequence returned
PlaySequenceStale ==
    /\ calls < MaxCalls
    /\ \E captured \in closures \ {isPlaying} : PlaySequenceThrough(captured)

PauseSequence ==
    /\ calls < MaxCalls
    /\ Commit(pauseSequence(Call(Machine, "pauseSequence()",
                                 sequencerHasBeenInitializedRef /\ sequenceIsPlayingRef)))
    /\ calls' = calls + 1

StopSequence ==
    /\ calls < MaxCalls
    /\ Commit(stopSequence(Call(Machine, "stopSequence()", sequencerHasBeenInitializedRef)))
    /\ calls' = calls + 1

(***************************************************************************)
(* Timers: time passes, and the callback that is due first runs            *)
(***************************************************************************)
IsDue(t) == t.remaining = 0

\* the due timer that was set first
DueIndex == FindIndex(timers, IsDue)

WithoutTimer(m, k) ==
    [m EXCEPT !.timers = SubSeq(@, 1, k - 1) \o SubSeq(@, k + 1, Len(@))]

MinRemaining == CHOOSE r \in {timers[k].remaining : k \in 1..Len(timers)} :
                    \A k \in 1..Len(timers) : r <= timers[k].remaining

AdvanceSteps ==
    {MinRemaining} \cup {q \in {sequenceFrameLength \div StepsPerFrame} : q < MinRemaining}

Advance ==
    /\ timers # <<>>
    /\ DueIndex = 0
    /\ \E d \in AdvanceSteps :
          timers' = [k \in 1..Len(timers) |-> [timers[k] EXCEPT !.remaining = @ - d]]
    /\ UNCHANGED <<sequencerHasBeenInitializedRef, compiledLists, sequencedActionGroupsRef,
                   currentSequenceTimeRef, currentSequenceBarIndexRef, totalSequenceTimeRef,
                   sequenceIsPlayingRef, bpmRef, keySignatureRef, sequenceFrameTimeoutRef,
                   isPlaying, closures, trace, calls, inputs>>

\* the tick callback: currentSequenceTimeRef.current += sequenceFrameLength; sequenceLoop()
Tick ==
    /\ DueIndex # 0
    /\ timers[DueIndex].kind = "tick"
    /\ LET m == [WithoutTimer(Machine, DueIndex) EXCEPT !.clock = @ + sequenceFrameLength]
       IN  Commit(sequenceLoop(Emit(m, ControlEvent(m, "tick"))))
    /\ UNCHANGED calls

\* the dispatch callback of one group: playAction for each of its actions
Dispatch ==
    /\ DueIndex # 0
    /\ timers[DueIndex].kind = "dispatch"
    /\ \E t \in {timers[DueIndex]} :
       \E m \in {WithoutTimer(Machine, DueIndex)} :
       \E g \in {m.lists[t.gen][t.sequenceNumber + 1]} :
       \E m1 \in {Emit(m, Entry("dispatch", t.gen, t.sequenceNumber, 0,
                                g.startTimeInSequenceInMs, NoPitch, t.delay,
                                t.setAt + t.delay))} :
          Commit(PlayActions(m1, t.gen, t.sequenceNumber, 1))
    /\ UNCHANGED calls

\* the callback playAction set for the end of a note or rest
NoteOrRestEnd ==
    /\ DueIndex # 0
    /\ timers[DueIndex].kind \in {"noteEnd", "restEnd"}
    /\ LET t == timers[DueIndex]
           m == WithoutTimer(Machine, DueIndex)
           g == m.lists[t.gen][t.sequenceNumber + 1]
       IN  Commit(Emit(m, Entry(t.kind, t.gen, t.sequenceNumber, t.index,
                                g.startTimeInSequenceInMs, g.actions[t.index].pitch,
                                t.delay, m.clock)))
    /\ UNCHANGED calls

RunTimers == Advance \/ Tick \/ Dispatch \/ NoteOrRestEnd

(***************************************************************************)
(* Spec: the hook driven through the functions of its latest render.       *)
(* SpecStale: playSequence may also be called through an older reference.  *)
(* SpecPlaythrough: initSequence, one playSequence, then no further call.  *)
(***************************************************************************)
Next ==
    \/ InitSequence
    \/ PlaySequence
    \/ PauseSequence
    \/ StopSequence
    \/ Advance
    \/ Tick
    \/ Dispatch
    \/ NoteOrRestEnd

Spec == Init /\ [][Next]_vars

NextStale ==
    \/ InitSequence
    \/ PlaySequence
    \/ PlaySequenceStale
    \/ PauseSequence
    \/ StopSequence
    \/ Advance
    \/ Tick
    \/ Dispatch
    \/ NoteOrRestEnd

SpecStale == Init /\ [][NextStale]_vars

PlaythroughInit ==
    /\ calls = 0
    /\ \E i \in DOMAIN PlaythroughScores : InitSequenceWith(PlaythroughScores[i])

PlaythroughPlay ==
    /\ calls = 1
    /\ PlaySequenceThrough(isPlaying)

NextPlaythrough ==
    \/ PlaythroughInit
    \/ PlaythroughPlay
    \/ Advance
    \/ Tick
    \/ Dispatch
    \/ NoteOrRestEnd

SpecPlaythrough == Init /\ [][NextPlaythrough]_vars

\* the runtime runs every callback whose timeout has expired, and time passes
SpecPlaythroughFair ==
    /\ SpecPlaythrough
    /\ WF_vars(Advance)
    /\ WF_vars(Tick)
    /\ WF_vars(Dispatch)
    /\ WF_vars(NoteOrRestEnd)

(***************************************************************************)
(* initSequenceWithNotation.  A notation is given as barsForSequence, the  *)
(* bars its text parses to: one bar per non-blank "|" section, one action  *)
(* group per element, partialLength set by ">".                            *)
(***************************************************************************)
HasNoSequencableActionGroup(bar) ==
    \A k \in 1..Len(bar.actionGroups) : ~isSequencableActionGroup(bar.actionGroups[k])

\* the first .map: a bar takes over the groups of the bar written before it
\* when that bar, as parsed, holds no sequencable group
WithPreviousBarMerged(barsForSequence, i) ==
    IF i > 1 /\ HasNoSequencableActionGroup(barsForSequence[i - 1])
    THEN [barsForSequence[i] EXCEPT
            !.actionGroups = barsForSequence[i - 1].actionGroups \o @]
    ELSE barsForSequence[i]

\* the second .map and the .filter
barsForSequenceWithNonSequencableActionGroupsMerged(barsForSequence) ==
    LET merged == [i \in 1..Len(barsForSequence) |->
                      WithPreviousBarMerged(barsForSequence, i)]
        emptied == [i \in 1..Len(merged) |->
                      IF HasNoSequencableActionGroup(merged[i])
                      THEN [merged[i] EXCEPT !.actionGroups = <<>>]
                      ELSE merged[i]]
        NotEmpty(bar) == Len(bar.actionGroups) > 0
    IN  SelectSeq(emptied, NotEmpty)

generateSequenceFromNotation(barsForSequence) ==
    barsForSequenceWithNonSequencableActionGroupsMerged(barsForSequence)

initSequenceWithNotation(m, barsForSequence) ==
    LET AsWritten(m1) ==
            [m1 EXCEPT !.inputs[Len(m1.inputs)].barsForSequence = barsForSequence]
    IN  AsWritten(initSequence(m, generateSequenceFromNotation(barsForSequence)))

InitSequenceWithNotation(barsForSequence) ==
    /\ Commit(initSequenceWithNotation(Call(Machine, "initSequence()", TRUE), barsForSequence))
    /\ calls' = calls + 1

Quarter(p) == ActionGroup(<<NoteAction(p, 4, FALSE, FALSE)>>)

Eighth(p) == ActionGroup(<<NoteAction(p, 8, FALSE, FALSE)>>)

BPM(b) == ActionGroup(<<SetBPMAction(b)>>)

Time(n, u) == ActionGroup(<<SetTimeSignatureAction(n, u)>>)

\* ""
NotationEmpty == <<>>

\* "bpm=100 time=3/4"
NotationDirectivesOnly == <<Bar(FALSE, FALSE, <<BPM(100), Time(3, 4)>>)>>

\* "bpm=100 | C4:4 D4:4"
NotationDirectiveBar ==
    <<Bar(FALSE, FALSE, <<BPM(100)>>), Bar(FALSE, FALSE, <<Quarter(C4), Quarter(D4)>>)>>

\* "bpm=100 | time=3/4 | C4:4 D4:4 | E4:4"
NotationDirectiveBars ==
    <<Bar(FALSE, FALSE, <<BPM(100)>>), Bar(FALSE, FALSE, <<Time(3, 4)>>),
      Bar(FALSE, FALSE, <<Quarter(C4), Quarter(D4)>>), Bar(FALSE, FALSE, <<Quarter(E4)>>)>>

\* "C4:4 D4:4 | E4:4"
NotationShortBar ==
    <<Bar(FALSE, FALSE, <<Quarter(C4), Quarter(D4)>>), Bar(FALSE, FALSE, <<Quarter(E4)>>)>>

\* "C4:4 D4:4 E4:4 C4:4 | E4:4"
NotationFullBar ==
    <<Bar(FALSE, FALSE, <<Quarter(C4), Quarter(D4), Quarter(E4), Quarter(C4)>>),
      Bar(FALSE, FALSE, <<Quarter(E4)>>)>>

\* "C4:1 D4:4 | E4:4"
NotationLongBar ==
    <<Bar(FALSE, FALSE, <<ActionGroup(<<NoteAction(C4, 1, FALSE, FALSE)>>), Quarter(D4)>>),
      Bar(FALSE, FALSE, <<Quarter(E4)>>)>>

\* "C4:4 D4:1@4 | E4:4"
NotationLongPositioned ==
    <<Bar(FALSE, FALSE, <<Quarter(C4), ActionGroupAt(<<NoteAction(D4, 1, FALSE, FALSE)>>, 4)>>),
      Bar(FALSE, FALSE, <<Quarter(E4)>>)>>

\* "> C4:4 D4:4 | E4:4"
NotationPartial ==
    <<Bar(FALSE, TRUE, <<Quarter(C4), Quarter(D4)>>), Bar(FALSE, FALSE, <<Quarter(E4)>>)>>

\* "> C4:4 D4:2@2 | E4:4"
NotationPartialPositioned ==
    <<Bar(FALSE, TRUE, <<Quarter(C4), ActionGroupAt(<<NoteAction(D4, 2, FALSE, FALSE)>>, 2)>>),
      Bar(FALSE, FALSE, <<Quarter(E4)>>)>>

\* "> C4:4 D4:4 E4:4 C4:4@1 | E4:4"
NotationPartialLinearLonger ==
    <<Bar(FALSE, TRUE, <<Quarter(C4), Quarter(D4), Quarter(E4),
                         ActionGroupAt(<<NoteAction(C4, 4, FALSE, FALSE)>>, 1)>>),
      Bar(FALSE, FALSE, <<Quarter(E4)>>)>>

\* "> C4:1@1 D4:4@2 | E4:4"
NotationPartialEarlierLonger ==
    <<Bar(FALSE, TRUE, <<ActionGroupAt(<<NoteAction(C4, 1, FALSE, FALSE)>>, 1),
                         ActionGroupAt(<<NoteAction(D4, 4, FALSE, FALSE)>>, 2)>>),
      Bar(FALSE, FALSE, <<Quarter(E4)>>)>>

\* "time=6/8 C4:8 D4:8 E4:8 C4:8 D4:8 E4:8 | E4:4"
NotationSixEight ==
    <<Bar(FALSE, FALSE, <<Time(6, 8), Eighth(C4), Eighth(D4), Eighth(E4),
                          Eighth(C4), Eighth(D4), Eighth(E4)>>),
      Bar(FALSE, FALSE, <<Quarter(E4)>>)>>

\* "bpm=100 time=2/2 C4:2 D4:2 | E4:4"
NotationTwoTwo ==
    <<Bar(FALSE, FALSE, <<BPM(100), Time(2, 2),
                          ActionGroup(<<NoteAction(C4, 2, FALSE, FALSE)>>),
                          ActionGroup(<<NoteAction(D4, 2, FALSE, FALSE)>>)>>),
      Bar(FALSE, FALSE, <<Quarter(E4)>>)>>

\* "C4:4 bpm=300 D4:4 | E4:4"
NotationLateBPM ==
    <<Bar(FALSE, FALSE, <<Quarter(C4), BPM(300), Quarter(D4)>>),
      Bar(FALSE, FALSE, <<Quarter(E4)>>)>>

\* "C4:4 D4:4 time=3/4 | E4:4 bpm=240 | C4:4"
NotationLateTime ==
    <<Bar(FALSE, FALSE, <<Quarter(C4), Quarter(D4), Time(3, 4)>>),
      Bar(FALSE, FALSE, <<Quarter(E4), BPM(240)>>),
      Bar(FALSE, FALSE, <<Quarter(C4)>>)>>

\* "bpm=300 C4:4 bpm=100 | > E4:4 | bpm=240 D4:4"
NotationTwoBPM ==
    <<Bar(FALSE, FALSE, <<BPM(300), Quarter(C4), BPM(100)>>),
      Bar(FALSE, TRUE, <<Quarter(E4)>>),
      Bar(FALSE, FALSE, <<BPM(240), Quarter(D4)>>)>>

Notations ==
    <<NotationEmpty, NotationDirectivesOnly, NotationDirectiveBar, NotationDirectiveBars,
      NotationShortBar, NotationFullBar, NotationLongBar, NotationLongPositioned,
      NotationPartial, NotationPartialPositioned, NotationPartialLinearLonger,
      NotationPartialEarlierLonger, NotationSixEight, NotationTwoTwo,
      NotationLateBPM, NotationLateTime, NotationTwoBPM>>

\* a hook that is only given notations to compile
CompileNotation ==
    /\ Len(inputs) < MaxInits
    /\ \E n \in DOMAIN Notations : InitSequenceWithNotation(Notations[n])

SpecCompile == Init /\ [][CompileNotation]_vars

\* "> C4:8 | bpm=600 > D4:8"
NotationTempoChange ==
    <<Bar(FALSE, TRUE, <<Single(C4, 8, FALSE)>>),
      Bar(FALSE, TRUE, <<BPM(600), Single(D4, 8, FALSE)>>)>>

\* "bpm=600 > E4:8"
NotationFast == <<Bar(FALSE, TRUE, <<BPM(600), Single(E4, 8, FALSE)>>)>>

RecompileNotations == <<NotationTempoChange, NotationFast, NotationDirectivesOnly>>

\* a hook that is given notations and plays them
RecompileInit ==
    /\ calls < MaxCalls
    /\ Len(inputs) < MaxInits
    /\ \E n \in DOMAIN RecompileNotations : InitSequenceWithNotation(RecompileNotations[n])

NextRecompile ==
    \/ RecompileInit
    \/ PlaySequence
    \/ Advance
    \/ Tick
    \/ Dispatch
    \/ NoteOrRestEnd

SpecRecompile == Init /\ [][NextRecompile]_vars

(***************************************************************************)
(* Reading the history                                                     *)
(***************************************************************************)
CallTypes == {"initSequence()", "playSequence()", "pauseSequence()", "stopSequence()"}

GroupEventTypes == {"barStart", "noteStart", "restStart", "sustainPedalUp", "sustainPedalDown"}

\* entry i is a call of the given function that got past its guard
IsCallAt(i, name) == trace[i].type = name /\ trace[i].index = 1

\* an entry after which the transport starts over
IsReset(e) == e.type \in {"sequenceEnd", "initSequence()"}

NoResetIn(i, k) == \A x \in (i + 1)..(k - 1) : ~IsReset(trace[x])

FirstResetAfter(j) ==
    IF \E x \in (j + 1)..Len(trace) : IsReset(trace[x])
    THEN CHOOSE x \in (j + 1)..Len(trace) :
            IsReset(trace[x]) /\ \A y \in (j + 1)..(x - 1) : ~IsReset(trace[y])
    ELSE 0

\* entry e is the sequenceEnd of the stopSequence() that sequenceLoop makes
IsAutomaticEnd(e) ==
    e > 1 /\ trace[e].type = "sequenceEnd" /\ trace[e - 1].type # "stopSequence()"

NoCallAfter(e) == \A x \in (e + 1)..Len(trace) : trace[x].type \notin CallTypes

PendingTimers(kind) == {k \in 1..Len(timers) : timers[k].kind = kind}

\* the playthrough that entry j belongs to has ended by itself, nothing was
\* called since, and every dispatch it set has run
PlaythroughOver(j) ==
    LET e == FirstResetAfter(j)
    IN  e # 0 /\ IsAutomaticEnd(e) /\ NoCallAfter(e) /\ PendingTimers("dispatch") = {}

\* group g of list gen was dispatched after entry j, at its start time on the clock
DispatchedAfter(j, gen, g) ==
    \E k \in (j + 1)..Len(trace) :
        /\ trace[k].type = "dispatch"
        /\ trace[k].gen = gen
        /\ trace[k].sequenceNumber = g.sequenceNumber
        /\ trace[k].at = g.startTimeInSequenceInMs

(***************************************************************************)
(* C1: after a pause at clock c and a resume, no group that starts before  *)
(* c is dispatched again, and every group that starts at or after c is     *)
(* dispatched at its compiled start time on the clock.                     *)
(***************************************************************************)
C1_PauseResume ==
    \A i \in 1..Len(trace) :
        IsCallAt(i, "pauseSequence()") =>
            \A j \in (i + 1)..Len(trace) :
                (IsCallAt(j, "playSequence()") /\ NoResetIn(i, j)) =>
                    /\ \A k \in (j + 1)..Len(trace) :
                          (trace[k].type = "dispatch" /\ NoResetIn(j, k)) =>
                              /\ trace[k].start >= trace[i].at
                              /\ trace[k].at = trace[k].start
                    /\ PlaythroughOver(j) =>
                          \A n \in 1..Len(compiledLists[trace[j].gen]) :
                              LET g == compiledLists[trace[j].gen][n]
                              IN  g.startTimeInSequenceInMs >= trace[i].at =>
                                      DispatchedAfter(j, trace[j].gen, g)

\* a pause in the middle of a sequence, a resume, and the playthrough run to its end
C1_Witness ==
    \E i \in 1..Len(trace) :
        /\ IsCallAt(i, "pauseSequence()")
        /\ trace[i].at > 0
        /\ \E j \in (i + 1)..Len(trace) :
              /\ IsCallAt(j, "playSequence()")
              /\ NoResetIn(i, j)
              /\ PlaythroughOver(j)
              /\ \E k \in (j + 1)..Len(trace) :
                    /\ trace[k].type = "dispatch"
                    /\ trace[k].start >= trace[i].at
                    /\ trace[k].gen = trace[j].gen

(***************************************************************************)
(* C2: in a playthrough without pause or stop calls, sequenceEnd is        *)
(* emitted exactly once, when the clock has reached the total duration;    *)
(* afterwards the transport is not playing, the clock is 0 and no tick is  *)
(* pending; a following playSequence() emits sequenceStart and dispatches  *)
(* every group again, from clock 0.                                        *)
(***************************************************************************)
\* entry j is a playSequence() that starts a playthrough at clock 0
IsPlaythroughStart(j) == IsCallAt(j, "playSequence()") /\ trace[j].at = 0

NoCallBetween(j, p) == \A x \in (j + 1)..(p - 1) : trace[x].type \notin CallTypes

EndsAfter(j) == {e \in (j + 1)..Len(trace) : trace[e].type = "sequenceEnd"}

\* a tick after entry j found the clock at or past the total duration
ClockReachedTotalAfter(j) ==
    \E k \in (j + 1)..Len(trace) :
        trace[k].type = "tick" /\ trace[k].at >= totalSequenceTimeRef

C3_PlayWhilePlaying ==
    /\ Cardinality(PendingTimers("tick")) <= 1
    /\ \A p \in 1..Len(trace) :
          (trace[p].type = "playSequence()" /\ trace[p].playing) =>
              /\ trace[p].index = 0
              /\ p < Len(trace) => trace[p + 1].type \notin {"sequenceStart", "barStart"}

IsCallStep(name) ==
    /\ Len(trace') > Len(trace)
    /\ SubSeq(trace', 1, Len(trace)) = trace
    /\ trace'[Len(trace) + 1].type = name

\* the last call noted in the history is a pauseSequence() that got past its guard
LastCallIsPause ==
    \E i \in 1..Len(trace) : IsCallAt(i, "pauseSequence()") /\ NoCallAfter(i)

ClockAtLastPause ==
    LET i == CHOOSE x \in 1..Len(trace) : IsCallAt(x, "pauseSequence()") /\ NoCallAfter(x)
    IN  trace[i].at

C5_PauseStep ==
    IsCallStep("pauseSequence()") =>
        /\ Len(trace') = Len(trace) + 1
        /\ currentSequenceTimeRef' = currentSequenceTimeRef
        /\ currentSequenceBarIndexRef' = currentSequenceBarIndexRef
        /\ IF sequenceIsPlayingRef
           THEN /\ ~sequenceIsPlayingRef'
                /\ sequenceFrameTimeoutRef' = 0
                /\ \A k \in 1..Len(timers') : timers'[k].kind # "tick"
           ELSE UNCHANGED <<sequencerHasBeenInitializedRef, compiledLists,
                            sequencedActionGroupsRef, totalSequenceTimeRef,
                            sequenceIsPlayingRef, bpmRef, keySignatureRef,
                            sequenceFrameTimeoutRef, isPlaying, timers>>

C5_ResumeStep ==
    (IsCallStep("playSequence()") /\ LastCallIsPause) =>
        /\ trace'[Len(trace) + 1].index = 1
        /\ currentSequenceTimeRef = ClockAtLastPause
        /\ currentSequenceTimeRef' = currentSequenceTimeRef
        /\ sequenceIsPlayingRef'
        /\ (Len(trace') > Len(trace) + 1 /\ trace'[Len(trace) + 2].type = "sequenceStart")
              <=> currentSequenceTimeRef = 0

ListCompiledAt(i) ==
    Cardinality({x \in 1..i : trace[x].type = "initSequence()"})

\* C6: initSequence leaves clock 0, not playing, no tick, and nothing of an earlier
\* list is dispatched after it
C6_InitReplaces ==
    \A i \in 1..Len(trace) :
        trace[i].type = "initSequence()" =>
            /\ i = Len(trace) =>
                  /\ currentSequenceTimeRef = 0
                  /\ ~sequenceIsPlayingRef
                  /\ PendingTimers("tick") = {}
            /\ \A k \in (i + 1)..Len(trace) :
                  trace[k].type = "dispatch" => trace[k].gen >= ListCompiledAt(i)

(***************************************************************************)
(* C7: whatever play, pause and resume calls are made during a             *)
(* playthrough, the events that stem from compiled groups (barStart,       *)
(* noteStart, restStart, sustainPedalUp, sustainPedalDown) are emitted in  *)
(* non-decreasing order of the groups' start times.                        *)
(***************************************************************************)
C7_StartOrder ==
    \A a \in 1..Len(trace) : \A b \in (a + 1)..Len(trace) :
        ( /\ trace[a].type \in GroupEventTypes
          /\ trace[b].type \in GroupEventTypes
          /\ trace[a].gen = trace[b].gen
          /\ \A x \in a..b : trace[x].type \notin {"sequenceEnd", "initSequence()",
                                                   "stopSequence()"} ) =>
            trace[a].start <= trace[b].start

(***************************************************************************)
(* Ties, read off a finished playthrough of the current list               *)
(***************************************************************************)
\* the playthrough has ended and every callback has run
PlaythroughDone ==
    /\ \E j \in 1..Len(trace) : IsPlaythroughStart(j) /\ EndsAfter(j) # {}
    /\ timers = <<>>

\* position in the list of the next Note group after position n, 0 if none
NextNoteGroup(list, n) ==
    LET later == {x \in (n + 1)..Len(list) : isNoteActionGroup(list[x])}
    IN  IF later = {} THEN 0 ELSE CHOOSE x \in later : \A y \in later : x <= y

\* position in the list of the last Note group before position n, 0 if none
PreviousNoteGroup(list, n) ==
    LET earlier == {x \in 1..(n - 1) : isNoteActionGroup(list[x])}
    IN  IF earlier = {} THEN 0 ELSE CHOOSE x \in earlier : \A y \in earlier : x >= y

\* index of the note of the given pitch in group n, 0 if none (or n = 0)
NoteWithPitch(list, n, pitch) ==
    IF n = 0 THEN 0
    ELSE LET Same(a) == a.type = "note" /\ a.pitch = pitch
         IN  FindIndex(list[n].actions, Same)

\* the note at (n, i) is tied and continues in the next Note group
TieTarget(list, n, i) ==
    IF list[n].actions[i].type = "note" /\ list[n].actions[i].tied
    THEN NoteWithPitch(list, NextNoteGroup(list, n), list[n].actions[i].pitch)
    ELSE 0

\* the note at (n, i) continues a tied note of the previous Note group
IsTieTarget(list, n, i) ==
    LET p == PreviousNoteGroup(list, n)
    IN  /\ list[n].actions[i].type = "note"
        /\ p # 0
        /\ \E x \in 1..Len(list[p].actions) :
              /\ list[p].actions[x].type = "note"
              /\ list[p].actions[x].tied
              /\ list[p].actions[x].pitch = list[n].actions[i].pitch

EventsOf(type, n, i) ==
    {k \in 1..Len(trace) :
        /\ trace[k].type = type
        /\ trace[k].gen = sequencedActionGroupsRef
        /\ trace[k].sequenceNumber = CurrentList(Machine)[n].sequenceNumber
        /\ trace[k].index = i}

NotePositions ==
    {p \in (1..Len(CurrentList(Machine))) \X (1..2) :
        /\ p[2] <= Len(CurrentList(Machine)[p[1]].actions)
        /\ CurrentList(Machine)[p[1]].actions[p[2]].type = "note"}

(***************************************************************************)
(* C8: a tied note whose pitch is in the next Note group gives one         *)
(* noteStart for the pair, none for the target, and one noteEnd, after the *)
(* tied note's own duration plus the target's, equal or not.               *)
(***************************************************************************)
C8_TiePair ==
    PlaythroughDone =>
        \A p \in NotePositions :
            LET list == CurrentList(Machine)
                n == p[1]
                i == p[2]
                n2 == NextNoteGroup(list, n)
                i2 == TieTarget(list, n, i)
            IN  ( /\ i2 # 0
                  /\ ~IsTieTarget(list, n, i)
                  /\ ~list[n2].actions[i2].tied ) =>
                    /\ Cardinality(EventsOf("noteStart", n, i)) = 1
                    /\ EventsOf("noteStart", n2, i2) = {}
                    /\ Cardinality(EventsOf("noteEnd", n, i)) = 1
                    /\ EventsOf("noteEnd", n2, i2) = {}
                    /\ \A k \in EventsOf("noteEnd", n, i) :
                          trace[k].delay = OwnDurationInMs(bpmRef, list[n].actions[i])
                                             + OwnDurationInMs(bpmRef, list[n2].actions[i2])

(***************************************************************************)
(* C9: when the target of a tie is itself tied into a further Note group   *)
(* of the same pitch, the first note sounds for the sum over the chain:    *)
(* one noteStart, and one noteEnd after the three durations together       *)
(* (1500 ms for C4~:4 C4~:4 C4:4 at 120 bpm).                              *)
(***************************************************************************)
C9_TieChain ==
    PlaythroughDone =>
        \A p \in NotePositions :
            LET list == CurrentList(Machine)
                n == p[1]
                i == p[2]
                n2 == NextNoteGroup(list, n)
                i2 == TieTarget(list, n, i)
                n3 == IF i2 = 0 THEN 0 ELSE NextNoteGroup(list, n2)
                i3 == IF i2 = 0 THEN 0 ELSE TieTarget(list, n2, i2)
            IN  ( /\ i2 # 0
                  /\ i3 # 0
                  /\ ~IsTieTarget(list, n, i)
                  /\ ~list[n3].actions[i3].tied ) =>
                    /\ Cardinality(EventsOf("noteStart", n, i)) = 1
                    /\ EventsOf("noteStart", n2, i2) = {}
                    /\ EventsOf("noteStart", n3, i3) = {}
                    /\ Cardinality(EventsOf("noteEnd", n, i)) = 1
                    /\ \A k \in EventsOf("noteEnd", n, i) :
                          trace[k].delay = OwnDurationInMs(bpmRef, list[n].actions[i])
                                             + OwnDurationInMs(bpmRef, list[n2].actions[i2])
                                             + OwnDurationInMs(bpmRef, list[n3].actions[i3])

(***************************************************************************)
(* C10: a tied note whose pitch is not in the next Note group, or that has *)
(* no later Note group, is an ordinary note: its noteEnd comes after its   *)
(* own duration, and every note of the following group is started.         *)
(***************************************************************************)
C10_TieWithoutTarget ==
    PlaythroughDone =>
        \A p \in NotePositions :
            LET list == CurrentList(Machine)
                n == p[1]
                i == p[2]
                n2 == NextNoteGroup(list, n)
            IN  ( /\ list[n].actions[i].tied
                  /\ TieTarget(list, n, i) = 0
                  /\ ~IsTieTarget(list, n, i) ) =>
                    /\ Cardinality(EventsOf("noteStart", n, i)) = 1
                    /\ Cardinality(EventsOf("noteEnd", n, i)) = 1
                    /\ \A k \in EventsOf("noteEnd", n, i) :
                          trace[k].delay = OwnDurationInMs(bpmRef, list[n].actions[i])
                    /\ n2 # 0 =>
                          \A x \in 1..Len(list[n2].actions) :
                              Cardinality(EventsOf("noteStart", n2, x)) = 1

(***************************************************************************)
(* C11: in an uninterrupted playthrough barStart{k} is emitted exactly     *)
(* once for every bar index k that has compiled groups, bar 0 included,    *)
(* and before every noteStart, restStart and pedal event of bar k.         *)
(***************************************************************************)
BarIndicesOfCurrentList ==
    {CurrentList(Machine)[n].barIndex : n \in 1..Len(CurrentList(Machine))}

\* the barStart{k} events of the current list
BarStartsOf(k) ==
    {e \in 1..Len(trace) :
        /\ trace[e].type = "barStart"
        /\ trace[e].gen = sequencedActionGroupsRef
        /\ trace[e].index = k}

\* the note, rest and pedal events of the groups of bar k of the current list
ActionEventsOfBar(k) ==
    {x \in 1..Len(trace) :
        /\ trace[x].type \in {"noteStart", "restStart", "sustainPedalUp", "sustainPedalDown"}
        /\ trace[x].gen = sequencedActionGroupsRef
        /\ CurrentList(Machine)[trace[x].sequenceNumber + 1].barIndex = k}

C11_BarStartOnce ==
    PlaythroughDone =>
        \A k \in BarIndicesOfCurrentList :
            /\ Cardinality(BarStartsOf(k)) = 1
            /\ \A e \in BarStartsOf(k) : \A x \in ActionEventsOfBar(k) : e < x

(***************************************************************************)
(* C12: generateSequenceFromNotation drops every bar without a sequencable *)
(* group and prepends its control actions, in original order, to the next  *)
(* playable bar, also when several such bars stand in a row.               *)
(***************************************************************************)
RECURSIVE DirectivesCarriedForward(_, _, _)
\* the bars of a notation with the groups of every run of non-playable bars
\* put in front of the playable bar that follows the run
DirectivesCarriedForward(written, i, carried) ==
    IF i > Len(written) THEN <<>>
    ELSE IF HasNoSequencableActionGroup(written[i])
         THEN DirectivesCarriedForward(written, i + 1, carried \o written[i].actionGroups)
         ELSE <<[written[i] EXCEPT !.actionGroups = carried \o @]>>
                \o DirectivesCarriedForward(written, i + 1, <<>>)

C12_DirectivesReachNextPlayableBar ==
    \A k \in 1..Len(inputs) :
        inputs[k].bars = DirectivesCarriedForward(inputs[k].barsForSequence, 1, <<>>)

(***************************************************************************)
(* C13: compiling the same notation twice on one sequencer gives the same  *)
(* sequence numbers, start times and durations for every group, whatever   *)
(* was compiled or played in between.                                      *)
(***************************************************************************)
TimingOf(list) ==
    [k \in 1..Len(list) |->
        <<list[k].sequenceNumber, list[k].startTimeInSequenceInMs, list[k].durationInMs>>]

C13_SameNotationSameTiming ==
    \A a, b \in 1..Len(inputs) :
        (/\ inputs[a].barsForSequence = inputs[b].barsForSequence
         /\ inputs[a].list # 0
         /\ inputs[b].list # 0)
        => TimingOf(compiledLists[inputs[a].list]) = TimingOf(compiledLists[inputs[b].list])

(***************************************************************************)
(* C14: initSequence / initSequenceWithNotation on input without any       *)
(* sequencable group does not throw; it leaves an empty compiled list, and *)
(* a following playSequence() emits nothing.                               *)
(***************************************************************************)
HasNoSequencableGroupAtAll(written) ==
    \A i \in 1..Len(written) : HasNoSequencableActionGroup(written[i])

LastInitMarker ==
    CHOOSE i \in 0..Len(trace) :
        /\ i > 0 => trace[i].type = "initSequence()"
        /\ \A j \in (i + 1)..Len(trace) : trace[j].type # "initSequence()"

C14_EmptyInputCompiles ==
    (Len(inputs) > 0 /\ HasNoSequencableGroupAtAll(inputs[Len(inputs)].barsForSequence)) =>
        /\ \A i \in 1..Len(trace) : trace[i].type # "TypeError"
        /\ sequencerHasBeenInitializedRef
        /\ CurrentList(Machine) = <<>>
        /\ \A p \in (LastInitMarker + 1)..Len(trace) :
              (trace[p].type = "playSequence()" /\ ~trace[p].playing /\ p < Len(trace))
              => trace[p + 1].type \in CallTypes

(***************************************************************************)
(* C15: before the first initSequence, playSequence(), pauseSequence() and *)
(* stopSequence() in any order emit no event (no sequenceEnd either),      *)
(* schedule nothing and leave clock, bar index and playing flag unchanged. *)
(***************************************************************************)
NoInitSoFar == \A i \in 1..Len(trace) : trace[i].type # "initSequence()"

C15_NoOpBeforeInit ==
    NoInitSoFar =>
        /\ \A i \in 1..Len(trace) :
              trace[i].type \in {"playSequence()", "pauseSequence()", "stopSequence()"}
        /\ timers = <<>>
        /\ sequenceFrameTimeoutRef = 0
        /\ currentSequenceTimeRef = 0
        /\ currentSequenceBarIndexRef = NullBarIndex
        /\ ~sequenceIsPlayingRef
        /\ ~isPlaying

C15_Witness ==
    /\ NoInitSoFar
    /\ \A t \in {"playSequence()", "pauseSequence()", "stopSequence()"} :
          \E i \in 1..Len(trace) : trace[i].type = t

(***************************************************************************)
(* C16: once playSequence() has started a non-empty compiled sequence and  *)
(* no pause or stop is called, the transport, its clock growing by one     *)
(* frame period per tick, eventually reaches the total duration, emits     *)
(* sequenceEnd and is no longer playing.                                   *)
(***************************************************************************)
ClockReachedTotal ==
    \E i \in 1..Len(trace) : trace[i].type = "tick" /\ trace[i].at >= totalSequenceTimeRef

EndedByItself ==
    /\ ~sequenceIsPlayingRef
    /\ ClockReachedTotal
    /\ \E i \in 1..Len(trace) : trace[i].type = "sequenceEnd"

\* the clock only moves forward by one frame, or back to 0 at the end
ClockStep ==
    currentSequenceTimeRef' # currentSequenceTimeRef =>
        \/ currentSequenceTimeRef' = currentSequenceTimeRef + sequenceFrameLength
        \/ (currentSequenceTimeRef' = 0 /\ ~sequenceIsPlayingRef')

C16_PlaythroughTerminates ==
    /\ sequenceIsPlayingRef ~> EndedByItself
    /\ [][ClockStep]_vars

C16_Witness ==
    /\ EndedByItself
    /\ Cardinality({i \in 1..Len(trace) : trace[i].type = "tick"}) >= 2
    /\ \A i \in 1..Len(trace) : trace[i].type \notin {"pauseSequence()", "stopSequence()"}

(***************************************************************************)
(* Bar arithmetic as the specification states it, read off the written     *)
(* bars of an initSequence call and compared with the list it compiled     *)
(***************************************************************************)
WholeNoteInMs(bpm) == 240000 \div bpm

\* the duration of one note or rest of value d (1, 2, 4, 8, ...)
ValueInMs(bpm, d, dotted) ==
    IF dotted THEN (3 * (WholeNoteInMs(bpm) \div d)) \div 2 ELSE WholeNoteInMs(bpm) \div d

\* the duration of a group is that of its longest note or rest
GroupLengthInMs(bpm, g) ==
    LET timed == {x \in 1..Len(g.actions) : g.actions[x].type \in {"note", "rest"}}
        lengths == {ValueInMs(bpm, g.actions[x].duration, g.actions[x].dotted) : x \in timed}
    IN  IF lengths = {} THEN 0 ELSE CHOOSE l \in lengths : \A o \in lengths : o <= l

\* end offset of the explicitly positioned group with the latest position
EndOfLatestPositionedGroup(bpm, bar) ==
    LET positioned == {x \in 1..Len(bar.actionGroups) : bar.actionGroups[x].hasStartPosition}
    IN  IF positioned = {} THEN 0
        ELSE LET latest == CHOOSE x \in positioned :
                              \A y \in positioned :
                                  \/ bar.actionGroups[y].startPositionInBar
                                       < bar.actionGroups[x].startPositionInBar
                                  \/ (bar.actionGroups[y].startPositionInBar
                                        = bar.actionGroups[x].startPositionInBar /\ y <= x)
             IN  (bar.actionGroups[latest].startPositionInBar - 1) * ValueInMs(bpm, 4, FALSE)
                   + GroupLengthInMs(bpm, bar.actionGroups[latest])

RenderedLengthInMs(bpm, bar) ==
    Max(SeqSum([x \in 1..Len(bar.actionGroups) |->
                  IF bar.actionGroups[x].hasStartPosition THEN 0
                  ELSE GroupLengthInMs(bpm, bar.actionGroups[x])]),
        EndOfLatestPositionedGroup(bpm, bar))

\* N notes of value U
NominalLengthInMs(bpm, timeSignature) ==
    timeSignature.beatsPerBar * ValueInMs(bpm, timeSignature.beatUnit, FALSE)

RECURSIVE ActionsWrittenUpTo(_, _)
\* every action of bars 1..i in textual order
ActionsWrittenUpTo(bars, i) ==
    IF i = 0 THEN <<>>
    ELSE ActionsWrittenUpTo(bars, i - 1)
           \o Flatten([x \in 1..Len(bars[i].actionGroups) |-> bars[i].actionGroups[x].actions])

\* position of the last action of a type written in bars 1..i, 0 if none
LastWritten(bars, i, type) ==
    LET written == ActionsWrittenUpTo(bars, i)
        at == {x \in 1..Len(written) : written[x].type = type}
    IN  IF at = {} THEN 0 ELSE CHOOSE x \in at : \A y \in at : y <= x

\* the tempo and the time signature in effect for bar i of initSequence call c
TempoInEffect(c, i) ==
    LET x == LastWritten(inputs[c].bars, i, "setBPM")
    IN  IF x = 0 THEN inputs[c].bpm ELSE ActionsWrittenUpTo(inputs[c].bars, i)[x].bpm

TimeSignatureInEffect(c, i) ==
    LET x == LastWritten(inputs[c].bars, i, "setTimeSignature")
    IN  IF x = 0 THEN TimeSig(4, 4) ELSE ActionsWrittenUpTo(inputs[c].bars, i)[x].timeSignature

\* the compiled groups of bar i (1-based) of initSequence call c
CompiledGroupsOfBar(c, i) ==
    LET InBar(g) == g.barIndex = i - 1
    IN  SelectSeq(compiledLists[inputs[c].list], InBar)

\* where bar i starts: a group without position starts at the bar's start or
\* later, a group at position p starts p - 1 quarter notes after it
CompiledBarStart(c, i) ==
    LET groups == CompiledGroupsOfBar(c, i)
        starts == {groups[x].startTimeInSequenceInMs
                     - (IF groups[x].hasStartPosition
                        THEN (groups[x].startPositionInBar - 1)
                               * ValueInMs(TempoInEffect(c, i), 4, FALSE)
                        ELSE 0) : x \in 1..Len(groups)}
    IN  CHOOSE t \in starts : \A o \in starts : t <= o

\* the distance from the start of bar i to the start of bar i + 1
CompiledBarLength(c, i) == CompiledBarStart(c, i + 1) - CompiledBarStart(c, i)

\* the calls that compiled a list, and their bars that have a successor
CompilingCalls == {c \in 1..Len(inputs) : inputs[c].list # 0}

BarsWithSuccessor(c) == 1..(Len(inputs[c].bars) - 1)

\* every written group of bar i is in the compiled list, at its full length
NothingDroppedOrShortened(c, i) ==
    /\ Len(CompiledGroupsOfBar(c, i)) = Len(inputs[c].bars[i].actionGroups)
    /\ \A x \in 1..Len(CompiledGroupsOfBar(c, i)) :
          CompiledGroupsOfBar(c, i)[x].durationInMs
            = GroupLengthInMs(TempoInEffect(c, i), CompiledGroupsOfBar(c, i)[x])

(***************************************************************************)
(* C17: a bar without partialLength is as long as the nominal length when  *)
(* its rendered content is no longer than that, and as long as its         *)
(* rendered content otherwise; no group is dropped or shortened.           *)
(***************************************************************************)
C17_BarLength ==
    \A c \in CompilingCalls : \A i \in BarsWithSuccessor(c) :
        ~inputs[c].bars[i].partialLength =>
            /\ CompiledBarLength(c, i)
                 = Max(NominalLengthInMs(TempoInEffect(c, i), TimeSignatureInEffect(c, i)),
                       RenderedLengthInMs(TempoInEffect(c, i), inputs[c].bars[i]))
            /\ NothingDroppedOrShortened(c, i)

BeatNote(timeSignature) == NoteAction(C4, timeSignature.beatUnit, FALSE, FALSE)

C19_NominalLength ==
    \A c \in 1..Len(inputs) : \A i \in 1..Len(inputs[c].bars) :
        getBarLengthInMsForTimeSignature(TempoInEffect(c, i), TimeSignatureInEffect(c, i))
          = TimeSignatureInEffect(c, i).beatsPerBar
              * getTotalNoteOrRestDurationInMs(TempoInEffect(c, i),
                                               BeatNote(TimeSignatureInEffect(c, i)),
                                               FALSE, BeatNote(TimeSignatureInEffect(c, i)))

(***************************************************************************)
(* C20: in initSequence all setBPM and setTimeSignature actions of a bar   *)
(* are applied before the bar's nominal length and the offset and duration *)
(* of any of its groups are computed, wherever in the bar they are         *)
(* written, and they stay in effect for later bars until overridden.       *)
(***************************************************************************)
\* offset of the x-th written group of a bar from the bar's start
OffsetInBar(bpm, bar, x) ==
    IF bar.actionGroups[x].hasStartPosition
    THEN (bar.actionGroups[x].startPositionInBar - 1) * ValueInMs(bpm, 4, FALSE)
    ELSE SeqSum([y \in 1..(x - 1) |->
                   IF bar.actionGroups[y].hasStartPosition THEN 0
                   ELSE GroupLengthInMs(bpm, bar.actionGroups[y])])

\* start and duration of the sequencable groups of bar i at the bar's tempo
TimingAtTempoOfBar(c, i) ==
    LET bar == inputs[c].bars[i]
    IN  {<<CompiledBarStart(c, i) + OffsetInBar(TempoInEffect(c, i), bar, x),
           GroupLengthInMs(TempoInEffect(c, i), bar.actionGroups[x])>> :
            x \in {y \in 1..Len(bar.actionGroups) :
                      isSequencableActionGroup(bar.actionGroups[y])}}

CompiledTimingOfBar(c, i) ==
    {<<CompiledGroupsOfBar(c, i)[x].startTimeInSequenceInMs,
       CompiledGroupsOfBar(c, i)[x].durationInMs>> :
        x \in {y \in 1..Len(CompiledGroupsOfBar(c, i)) :
                  isSequencableActionGroup(CompiledGroupsOfBar(c, i)[y])}}

C20_DirectivesFirst ==
    \A c \in CompilingCalls : \A i \in 1..Len(inputs[c].bars) :
        /\ CompiledTimingOfBar(c, i) = TimingAtTempoOfBar(c, i)
        /\ (i \in BarsWithSuccessor(c) /\ ~inputs[c].bars[i].partialLength) =>
              CompiledBarLength(c, i)
                = Max(getBarLengthInMsForTimeSignature(TempoInEffect(c, i),
                                                       TimeSignatureInEffect(c, i)),
                      RenderedLengthInMs(TempoInEffect(c, i), inputs[c].bars[i]))

\* a directive written after a note of its bar
WrittenAfterANote(bar, type) ==
    \E x, y \in 1..Len(bar.actionGroups) :
        /\ x < y
        /\ isNoteActionGroup(bar.actionGroups[x])
        /\ bar.actionGroups[y].actions[1].type = type

\* a list has been compiled from bars with a tempo and a time signature written
\* after a note, each followed by a bar that sets neither
C20_Witness ==
    \E c \in CompilingCalls : \E i, j \in BarsWithSuccessor(c) :
        /\ WrittenAfterANote(inputs[c].bars[i], "setBPM")
        /\ TempoInEffect(c, i) # inputs[c].bpm
        /\ TempoInEffect(c, i + 1) = TempoInEffect(c, i)
        /\ WrittenAfterANote(inputs[c].bars[j], "setTimeSignature")
        /\ TimeSignatureInEffect(c, j + 1) = TimeSignatureInEffect(c, j)
        /\ TimeSignatureInEffect(c, j) # TimeSig(4, 4)

(***************************************************************************)
(* Positioned groups and automatic pedalling                               *)
(***************************************************************************)
Auto(on) == ActionGroup(<<AutoSustainPedalAction(on)>>)

ArrangementNotations ==
    <<  \* 1 "C4:4 D4:2@3 E4:4 | E4:4"
        <<Bar(FALSE, FALSE, <<Quarter(C4), ActionGroupAt(<<NoteAction(D4, 2, FALSE, FALSE)>>, 3),
                              Quarter(E4)>>),
          Bar(FALSE, FALSE, <<Quarter(E4)>>)>>,
        \* 2 "C4_E4:4@2 D4:4 | ##:4"
        <<Bar(FALSE, FALSE, <<ActionGroupAt(<<NoteAction(C4, 4, FALSE, FALSE),
                                              NoteAction(E4, 4, FALSE, FALSE)>>, 2),
                              Quarter(D4)>>),
          Bar(FALSE, FALSE, <<ActionGroup(<<RestAction(4, FALSE)>>)>>)>>,
        \* 3 "> C4:4 ##:4@3 D4:4 | E4:4"
        <<Bar(FALSE, TRUE, <<Quarter(C4), ActionGroupAt(<<RestAction(4, FALSE)>>, 3),
                             Quarter(D4)>>),
          Bar(FALSE, FALSE, <<Quarter(E4)>>)>>,
        \* 4 "autoSustain=on | C4:4 D4:4"
        <<Bar(FALSE, FALSE, <<Auto(TRUE)>>),
          Bar(FALSE, FALSE, <<Quarter(C4), Quarter(D4)>>)>>,
        \* 5 "C4:4 | autoSustain=on > D4:4 E4:4 | E4:4"
        <<Bar(FALSE, FALSE, <<Quarter(C4)>>),
          Bar(FALSE, TRUE, <<Auto(TRUE), Quarter(D4), Quarter(E4)>>),
          Bar(FALSE, FALSE, <<Quarter(E4)>>)>>,
        \* 6 "autoSustain=on C4:4 | autoSustain=off D4:4 | E4:4"
        <<Bar(FALSE, FALSE, <<Auto(TRUE), Quarter(C4)>>),
          Bar(FALSE, FALSE, <<Auto(FALSE), Quarter(D4)>>),
          Bar(FALSE, FALSE, <<Quarter(E4)>>)>>,
        \* 7 "autoSustain=off C4:4 | autoSustain=on D4:4"
        <<Bar(FALSE, FALSE, <<Auto(FALSE), Quarter(C4)>>),
          Bar(FALSE, FALSE, <<Auto(TRUE), Quarter(D4)>>)>>,
        \* 8 "autoSustain=on C4:4 D4~:4 | D4:4 E4:4 | C4:4"
        <<Bar(FALSE, FALSE, <<Auto(TRUE), Quarter(C4), Single(D4, 4, TRUE)>>),
          Bar(FALSE, FALSE, <<Quarter(D4), Quarter(E4)>>),
          Bar(FALSE, FALSE, <<Quarter(C4)>>)>>,
        \* 9 "autoSustain=on C4:4 D4~:4 | E4:4"
        <<Bar(FALSE, FALSE, <<Auto(TRUE), Quarter(C4), Single(D4, 4, TRUE)>>),
          Bar(FALSE, FALSE, <<Quarter(E4)>>)>>,
        \* 10 "autoSustain=on C4~_E4~:4 | E4:4"
        <<Bar(FALSE, FALSE, <<Auto(TRUE), ActionGroup(<<NoteAction(C4, 4, FALSE, TRUE),
                                                        NoteAction(E4, 4, FALSE, TRUE)>>)>>),
          Bar(FALSE, FALSE, <<Quarter(E4)>>)>>,
        \* 11 "> [_ | C4:4 _]"
        <<Bar(FALSE, TRUE, <<ActionGroup(<<SustainPedalDownAction>>)>>),
          Bar(FALSE, FALSE, <<Quarter(C4), ActionGroup(<<SustainPedalUpAction>>)>>)>>,
        \* 12 "C4:4 | > C4:1@1 D4:4@2"
        <<Bar(FALSE, FALSE, <<Quarter(C4)>>),
          Bar(FALSE, TRUE, <<ActionGroupAt(<<NoteAction(C4, 1, FALSE, FALSE)>>, 1),
                             ActionGroupAt(<<NoteAction(D4, 4, FALSE, FALSE)>>, 2)>>)>>,
        \* 13 "autoSustain=on D4:4@2 E4:4@1 [_ C4:4 | E4:4"
        <<Bar(FALSE, FALSE, <<Auto(TRUE), ActionGroupAt(<<NoteAction(D4, 4, FALSE, FALSE)>>, 2),
                              ActionGroupAt(<<NoteAction(E4, 4, FALSE, FALSE)>>, 1),
                              ActionGroup(<<SustainPedalDownAction>>), Quarter(C4)>>),
          Bar(FALSE, FALSE, <<Quarter(E4)>>)>> >>

\* bars handed to initSequence by a caller that sets withSustainPedal itself
PedalledBars ==
    <<  \* 1 pedalled, plain, pedalled and partial
        <<Bar(TRUE, FALSE, <<Quarter(C4)>>), Bar(FALSE, FALSE, <<Quarter(D4)>>),
          Bar(TRUE, TRUE, <<Quarter(E4)>>)>>,
        \* 2 pedalled and tied into a plain bar, then a pedalled bar
        <<Bar(TRUE, FALSE, <<Single(C4, 4, TRUE)>>), Bar(FALSE, FALSE, <<Quarter(C4)>>),
          Bar(TRUE, FALSE, <<Quarter(D4)>>)>>,
        \* 3 two pedalled bars, the first tied into the second
        <<Bar(TRUE, TRUE, <<Quarter(E4), Single(C4, 4, TRUE)>>),
          Bar(TRUE, FALSE, <<Quarter(C4), Quarter(D4)>>)>> >>

CompileArrangement ==
    /\ Len(inputs) < MaxInits
    /\ \E n \in DOMAIN (Notations \o ArrangementNotations) :
          InitSequenceWithNotation((Notations \o ArrangementNotations)[n])

InitSequencePedalled ==
    /\ Len(inputs) < MaxInits
    /\ \E n \in DOMAIN PedalledBars : InitSequenceWith(PedalledBars[n])

NextArrange ==
    \/ CompileArrangement
    \/ InitSequencePedalled

SpecArrange == Init /\ [][NextArrange]_vars

\* where bar i (1-based) of initSequence call c starts, and how long it is
StartOfBar(c, i) == inputs[c].barStarts[i]

LengthOfBar(c, i) == inputs[c].barStarts[i + 1] - inputs[c].barStarts[i]

IsNoteOrRest(g) == isNoteActionGroup(g) \/ isRestActionGroup(g)

(***************************************************************************)
(* C21: within a bar a note, chord or rest written with an explicit @p     *)
(* starts p - 1 quarter notes after the bar's start and does not advance   *)
(* the linear cursor; every other sequencable group starts at the bar's    *)
(* start plus the summed durations of the linear groups written before it. *)
(***************************************************************************)
C21_PositionedGroups ==
    \A c \in CompilingCalls : \A i \in 1..Len(inputs[c].bars) :
        {<<CompiledGroupsOfBar(c, i)[x].actions,
           CompiledGroupsOfBar(c, i)[x].startTimeInSequenceInMs>> :
            x \in {y \in 1..Len(CompiledGroupsOfBar(c, i)) :
                      IsNoteOrRest(CompiledGroupsOfBar(c, i)[y])}}
          = {<<inputs[c].bars[i].actionGroups[x].actions,
               StartOfBar(c, i) + OffsetInBar(TempoInEffect(c, i), inputs[c].bars[i], x)>> :
                x \in {y \in 1..Len(inputs[c].bars[i].actionGroups) :
                          IsNoteOrRest(inputs[c].bars[i].actionGroups[y])}}

\* the same for bars in which no rest is written with a position
C21_PositionedNotes ==
    \A c \in CompilingCalls : \A i \in 1..Len(inputs[c].bars) :
        (\A y \in 1..Len(inputs[c].bars[i].actionGroups) :
            ~(isRestActionGroup(inputs[c].bars[i].actionGroups[y])
                /\ inputs[c].bars[i].actionGroups[y].hasStartPosition))
        => {<<CompiledGroupsOfBar(c, i)[x].actions,
              CompiledGroupsOfBar(c, i)[x].startTimeInSequenceInMs>> :
               x \in {y \in 1..Len(CompiledGroupsOfBar(c, i)) :
                         IsNoteOrRest(CompiledGroupsOfBar(c, i)[y])}}
             = {<<inputs[c].bars[i].actionGroups[x].actions,
                  StartOfBar(c, i) + OffsetInBar(TempoInEffect(c, i), inputs[c].bars[i], x)>> :
                   x \in {y \in 1..Len(inputs[c].bars[i].actionGroups) :
                             IsNoteOrRest(inputs[c].bars[i].actionGroups[y])}}

\* positions in a sequence of groups of the groups that hold an action of a type
GroupsOfType(groups, type) ==
    {x \in 1..Len(groups) : \E a \in 1..Len(groups[x].actions) : groups[x].actions[a].type = type}

\* how many groups of a pedal type bar i holds in the compiled list beyond the
\* ones written in it, in all and at start time t
InsertedPedals(c, i, type) ==
    Cardinality(GroupsOfType(CompiledGroupsOfBar(c, i), type))
      - Cardinality(GroupsOfType(inputs[c].bars[i].actionGroups, type))

InsertedPedalsAt(c, i, type, t) ==
    Cardinality({x \in GroupsOfType(CompiledGroupsOfBar(c, i), type) :
                    CompiledGroupsOfBar(c, i)[x].startTimeInSequenceInMs = t})
      - Cardinality({x \in GroupsOfType(inputs[c].bars[i].actionGroups, type) :
                        StartOfBar(c, i)
                          + OffsetInBar(TempoInEffect(c, i), inputs[c].bars[i], x) = t})

\* withSustainPedal is set on bar i, or the most recent autoSustain directive
\* written up to the end of bar i is "on"
PedallingActive(c, i) ==
    \/ inputs[c].bars[i].withSustainPedal
    \/ LET x == LastWritten(inputs[c].bars, i, "autoSustainPedal")
       IN  x # 0 /\ ActionsWrittenUpTo(inputs[c].bars, i)[x].pedalOnEveryBar

\* the last sequencable group of bar i holds a tied note whose pitch occurs in
\* the first sequencable group of bar i + 1
TiedIntoNextBar(c, i) ==
    /\ i >= 1
    /\ i + 1 <= Len(inputs[c].bars)
    /\ LET this == SelectSeq(inputs[c].bars[i].actionGroups, isSequencableActionGroup)
           next == SelectSeq(inputs[c].bars[i + 1].actionGroups, isSequencableActionGroup)
       IN  /\ this # <<>>
           /\ next # <<>>
           /\ \E a \in 1..Len(this[Len(this)].actions) : \E b \in 1..Len(next[1].actions) :
                 /\ this[Len(this)].actions[a].type = "note"
                 /\ this[Len(this)].actions[a].tied
                 /\ next[1].actions[b].type = "note"
                 /\ next[1].actions[b].pitch = this[Len(this)].actions[a].pitch

(***************************************************************************)
(* C22: for every bar with automatic pedalling active (withSustainPedal    *)
(* set, or autoSustain enabled) that is not tied to a neighbouring bar the *)
(* compiled list holds exactly one inserted sustainPedalDown, at the bar's *)
(* start, and exactly one inserted sustainPedalUp, at bar start + bar      *)
(* length - 100 ms; bars without active pedalling get neither.             *)
(***************************************************************************)
C22_PedalBrackets ==
    \A c \in CompilingCalls : \A i \in 1..Len(inputs[c].bars) :
        IF PedallingActive(c, i)
        THEN (~TiedIntoNextBar(c, i) /\ ~TiedIntoNextBar(c, i - 1)) =>
                /\ InsertedPedals(c, i, "sustainPedalDown") = 1
                /\ InsertedPedalsAt(c, i, "sustainPedalDown", StartOfBar(c, i)) = 1
                /\ InsertedPedals(c, i, "sustainPedalUp") = 1
                /\ InsertedPedalsAt(c, i, "sustainPedalUp",
                                    StartOfBar(c, i) + LengthOfBar(c, i)
                                      - timePeriodInWhichSustainPedalGoesUpBeforeNextBarInMs) = 1
        ELSE /\ InsertedPedals(c, i, "sustainPedalDown") = 0
             /\ InsertedPedals(c, i, "sustainPedalUp") = 0

\* the calls whose bars carry at most one autoSustain directive
AtMostOneAutoSustain(c) ==
    Cardinality({x \in 1..Len(ActionsWrittenUpTo(inputs[c].bars, Len(inputs[c].bars))) :
                    ActionsWrittenUpTo(inputs[c].bars, Len(inputs[c].bars))[x].type
                      = "autoSustainPedal"}) <= 1

\* the same for notations with at most one autoSustain directive and bars
\* that all have the same withSustainPedal
C22_PedalBracketsOfUniformBars ==
    \A c \in CompilingCalls : \A i \in 1..Len(inputs[c].bars) :
        (/\ AtMostOneAutoSustain(c)
         /\ \A j \in 1..Len(inputs[c].bars) :
               inputs[c].bars[j].withSustainPedal = inputs[c].bars[1].withSustainPedal)
        => IF PedallingActive(c, i)
           THEN (~TiedIntoNextBar(c, i) /\ ~TiedIntoNextBar(c, i - 1)) =>
                   /\ InsertedPedals(c, i, "sustainPedalDown") = 1
                   /\ InsertedPedalsAt(c, i, "sustainPedalDown", StartOfBar(c, i)) = 1
                   /\ InsertedPedals(c, i, "sustainPedalUp") = 1
                   /\ InsertedPedalsAt(c, i, "sustainPedalUp",
                                       StartOfBar(c, i) + LengthOfBar(c, i)
                                         - timePeriodInWhichSustainPedalGoesUpBeforeNextBarInMs) = 1
           ELSE /\ InsertedPedals(c, i, "sustainPedalDown") = 0
                /\ InsertedPedals(c, i, "sustainPedalUp") = 0

(***************************************************************************)
(* C23: compiling "autoSustain=on | C4:4 D4:4" at BPM 120 yields a         *)
(* sustainPedalDown group at 0 ms and a sustainPedalUp group at 900 ms.    *)
(***************************************************************************)
\* the calls that were given the notation at the default tempo
AutoSustainExampleCalls ==
    {c \in CompilingCalls : /\ inputs[c].barsForSequence = ArrangementNotations[4]
                            /\ inputs[c].bpm = DefaultBPM}

\* the start times of the groups of a type in the list compiled by call c
StartsOfType(c, type) ==
    {compiledLists[inputs[c].list][x].startTimeInSequenceInMs :
        x \in GroupsOfType(compiledLists[inputs[c].list], type)}

C23_AutoSustainExample ==
    \A c \in AutoSustainExampleCalls :
        /\ StartsOfType(c, "sustainPedalDown") = {0}
        /\ StartsOfType(c, "sustainPedalUp") = {900}

\* C23 as it holds: the bar is not marked ">" and therefore a full 4/4 bar of
\* 2000 ms, so the sustainPedalUp group is at 1900 ms
C23_AutoSustainExampleFullBar ==
    \A c \in AutoSustainExampleCalls :
        /\ StartsOfType(c, "sustainPedalDown") = {0}
        /\ StartsOfType(c, "sustainPedalUp") = {1900}

C23_Witness ==
    \E c \in AutoSustainExampleCalls :
        /\ Len(compiledLists[inputs[c].list]) = 5
        /\ StartsOfType(c, "note") = {0, 500}

(***************************************************************************)
(* C24: automatic pedalling follows the most recent autoSustain directive: *)
(* bars at or after an autoSustain=off get no automatically inserted pedal *)
(* groups until a later autoSustain=on, and bars at or after an            *)
(* autoSustain=on get them even when an earlier directive was              *)
(* autoSustain=off.                                                        *)
(***************************************************************************)
\* an autoSustain directive has been written in bars 1..i
AutoSustainWritten(c, i) == LastWritten(inputs[c].bars, i, "autoSustainPedal") # 0

C24_MostRecentAutoSustain ==
    \A c \in CompilingCalls : \A i \in 1..Len(inputs[c].bars) :
        (AutoSustainWritten(c, i) /\ ~inputs[c].bars[i].withSustainPedal) =>
            IF PedallingActive(c, i)
            THEN InsertedPedals(c, i, "sustainPedalDown") + InsertedPedals(c, i, "sustainPedalUp") > 0
            ELSE InsertedPedals(c, i, "sustainPedalDown") + InsertedPedals(c, i, "sustainPedalUp") = 0

(***************************************************************************)
(* C25: with automatic pedalling active, the inserted pedal-up of bar k is *)
(* omitted if and only if the last sequencable group of bar k contains a   *)
(* tied note whose pitch occurs in the first sequencable group of bar      *)
(* k + 1, and the inserted pedal-down of bar k + 1 is omitted under        *)
(* exactly that same condition on bars k and k + 1.                        *)
(***************************************************************************)
C25_TieSuppressesPedal ==
    \A c \in CompilingCalls : \A k \in 1..Len(inputs[c].bars) :
        /\ PedallingActive(c, k) =>
              (InsertedPedals(c, k, "sustainPedalUp") = 0 <=> TiedIntoNextBar(c, k))
        /\ (k < Len(inputs[c].bars) /\ PedallingActive(c, k + 1)) =>
              (InsertedPedals(c, k + 1, "sustainPedalDown") = 0 <=> TiedIntoNextBar(c, k))

\* the same for lists compiled from bars that all have the same
\* withSustainPedal, carry at most one autoSustain directive and hold at most
\* one tied note in a group
C25_TieSuppressesPedalOfUniformBars ==
    \A c \in CompilingCalls : \A k \in 1..Len(inputs[c].bars) :
        (/\ AtMostOneAutoSustain(c)
         /\ \A j \in 1..Len(inputs[c].bars) :
               /\ inputs[c].bars[j].withSustainPedal = inputs[c].bars[1].withSustainPedal
               /\ \A x \in 1..Len(inputs[c].bars[j].actionGroups) :
                     Cardinality({a \in 1..Len(inputs[c].bars[j].actionGroups[x].actions) :
                                     inputs[c].bars[j].actionGroups[x].actions[a].tied}) <= 1)
        => /\ PedallingActive(c, k) =>
                 (InsertedPedals(c, k, "sustainPedalUp") = 0 <=> TiedIntoNextBar(c, k))
           /\ (k < Len(inputs[c].bars) /\ PedallingActive(c, k + 1)) =>
                 (InsertedPedals(c, k + 1, "sustainPedalDown") = 0 <=> TiedIntoNextBar(c, k))

(***************************************************************************)
(* C26: after initSequence the N compiled groups carry the sequence        *)
(* numbers 0..N-1, each exactly once; for sequence numbers i < j the start *)
(* time of i is <= the start time of j; groups with equal start time keep  *)
(* their bar order and, within a bar, the order control groups, inserted   *)
(* pedal-down, notes and rests in textual order.                           *)
(***************************************************************************)
\* the rank of the x-th compiled group among the groups of its bar that start
\* with it: control groups, then the inserted pedal-down, then everything else
RankInBar(c, list, x) ==
    IF ~isSequencableActionGroup(list[x]) THEN 0
    ELSE IF /\ list[x].actions[1].type = "sustainPedalDown"
            /\ InsertedPedals(c, list[x].barIndex + 1, "sustainPedalDown") = 1
            /\ \A y \in 1..(x - 1) : ~(/\ list[y].barIndex = list[x].barIndex
                                       /\ list[y].actions[1].type = "sustainPedalDown")
         THEN 1
         ELSE 2

\* the position in the written bar of the k-th of the compiled groups of bar i
\* of call c that hold the actions of g and start when g starts
WrittenPosition(c, list, x) ==
    LET g == list[x]
        bar == inputs[c].bars[g.barIndex + 1]
        same == {y \in 1..Len(list) : /\ list[y].barIndex = g.barIndex
                                      /\ list[y].actions = g.actions}
        written == {y \in 1..Len(bar.actionGroups) : bar.actionGroups[y].actions = g.actions}
        k == Cardinality({y \in same : y <= x})
    IN  IF Cardinality(written) < k THEN 0
        ELSE CHOOSE y \in written : Cardinality({z \in written : z <= y}) = k

C26_NumberedInStartOrder ==
    \A c \in CompilingCalls :
        LET list == compiledLists[inputs[c].list]
        IN  /\ \A x \in 1..Len(list) : list[x].sequenceNumber = x - 1
            /\ \A x, y \in 1..Len(list) :
                  x < y =>
                    /\ list[x].startTimeInSequenceInMs <= list[y].startTimeInSequenceInMs
                    /\ list[x].startTimeInSequenceInMs = list[y].startTimeInSequenceInMs =>
                          /\ list[x].barIndex <= list[y].barIndex
                          /\ list[x].barIndex = list[y].barIndex =>
                                /\ RankInBar(c, list, x) <= RankInBar(c, list, y)
                                /\ (IsNoteOrRest(list[x]) /\ IsNoteOrRest(list[y])) =>
                                      WrittenPosition(c, list, x) <= WrittenPosition(c, list, y)

\* lists have been compiled in which a control group, the inserted pedal-down
\* and a note of one bar start together, in which a group written later in
\* its bar starts earlier, and in which groups of two bars start together
C26_Witness ==
    /\ \E c \in CompilingCalls :
          LET list == compiledLists[inputs[c].list]
          IN  \E x, y, z \in 1..Len(list) :
                 /\ x < y /\ y < z
                 /\ list[x].barIndex = list[z].barIndex
                 /\ list[y].barIndex = list[z].barIndex
                 /\ list[x].startTimeInSequenceInMs = list[z].startTimeInSequenceInMs
                 /\ list[y].startTimeInSequenceInMs = list[z].startTimeInSequenceInMs
                 /\ RankInBar(c, list, x) = 0
                 /\ RankInBar(c, list, y) = 1
                 /\ isNoteActionGroup(list[z])
    /\ \E c \in CompilingCalls :
          LET list == compiledLists[inputs[c].list]
          IN  \E x, y \in 1..Len(list) :
                 /\ x < y
                 /\ list[x].barIndex = list[y].barIndex
                 /\ IsNoteOrRest(list[x]) /\ IsNoteOrRest(list[y])
                 /\ WrittenPosition(c, list, x) > WrittenPosition(c, list, y)
    /\ \E c \in CompilingCalls :
          LET list == compiledLists[inputs[c].list]
          IN  \E x, y \in 1..Len(list) :
                 /\ x < y
                 /\ list[x].barIndex < list[y].barIndex
                 /\ list[x].startTimeInSequenceInMs = list[y].startTimeInSequenceInMs
    /\ \E c \in CompilingCalls :
          LET list == compiledLists[inputs[c].list]
          IN  \E x, y \in 1..Len(list) :
                 /\ x < y
                 /\ list[x].barIndex = list[y].barIndex
                 /\ list[x].startTimeInSequenceInMs = list[y].startTimeInSequenceInMs
                 /\ IsNoteOrRest(list[x]) /\ IsNoteOrRest(list[y])
                 /\ list[x].actions # list[y].actions

(***************************************************************************)
(* C27: the total sequence duration computed by initSequence is at least   *)
(* startTimeInSequenceInMs + durationInMs of every compiled group, so no   *)
(* note or rest is scheduled to extend past the point at which the         *)
(* transport stops by itself.                                              *)
(***************************************************************************)
C27_TotalCoversEveryGroup ==
    sequencerHasBeenInitializedRef =>
        \A x \in 1..Len(compiledLists[sequencedActionGroupsRef]) :
            compiledLists[sequencedActionGroupsRef][x].startTimeInSequenceInMs
              + compiledLists[sequencedActionGroupsRef][x].durationInMs
              <= totalSequenceTimeRef

\* the same for lists in which no group of a bar marked ">" is written with a
\* position
C27_TotalCoversLinearPartialBars ==
    (/\ sequencerHasBeenInitializedRef
     /\ \A i \in 1..Len(inputs[Len(inputs)].bars) :
           inputs[Len(inputs)].bars[i].partialLength =>
              \A x \in 1..Len(inputs[Len(inputs)].bars[i].actionGroups) :
                 ~inputs[Len(inputs)].bars[i].actionGroups[x].hasStartPosition
     /\ inputs[Len(inputs)].list # 0) =>
        \A x \in 1..Len(compiledLists[sequencedActionGroupsRef]) :
            compiledLists[sequencedActionGroupsRef][x].startTimeInSequenceInMs
              + compiledLists[sequencedActionGroupsRef][x].durationInMs
              <= totalSequenceTimeRef

(***************************************************************************)
(* Notations with key signatures, compiled and played                      *)
(***************************************************************************)
F4 == Pitch("F", "", 4)

B4 == Pitch("B", "", 4)

Key(k) == ActionGroup(<<SetKeySignatureAction(k)>>)

KeyedNotations ==
    <<  \* 1 "bpm=600 > F4:8 | key=G > F4:8"
        <<Bar(FALSE, TRUE, <<BPM(600), Eighth(F4)>>),
          Bar(FALSE, TRUE, <<Key("G"), Eighth(F4)>>)>>,
        \* 2 "bpm=600 key=F > B4:8 F4:8"
        <<Bar(FALSE, TRUE, <<BPM(600), Key("F"), Eighth(B4), Eighth(F4)>>)>>,
        \* 3 "bpm=600 > F4:8 B4:8"
        <<Bar(FALSE, TRUE, <<BPM(600), Eighth(F4), Eighth(B4)>>)>> >>

KeyedInit ==
    /\ calls < MaxCalls
    /\ Len(inputs) < MaxInits
    /\ \E n \in DOMAIN KeyedNotations : InitSequenceWithNotation(KeyedNotations[n])

NextKeyed ==
    \/ KeyedInit
    \/ PlaySequence
    \/ Advance
    \/ Tick
    \/ Dispatch
    \/ NoteOrRestEnd

SpecKeyed == Init /\ [][NextKeyed]_vars

\* the playSequence() that started the playthrough entry n belongs to
PlaythroughStartBefore(n) ==
    LET starts == {j \in 1..(n - 1) : IsPlaythroughStart(j)}
    IN  IF starts = {} THEN 0 ELSE CHOOSE j \in starts : \A o \in starts : o <= j

\* the dispatches of a group with a setKeySignature between the start of the
\* playthrough and entry n
KeyDispatchesBefore(n) ==
    {x \in (PlaythroughStartBefore(n) + 1)..(n - 1) :
        /\ trace[x].type = "dispatch"
        /\ GroupsOfType(<<compiledLists[trace[x].gen][trace[x].sequenceNumber + 1]>>,
                        "setKeySignature") # {}}

\* the key signature of the most recent of them, C when there is none
KeyInEffectAt(n) ==
    IF KeyDispatchesBefore(n) = {} THEN "C"
    ELSE LET x == CHOOSE k \in KeyDispatchesBefore(n) : \A o \in KeyDispatchesBefore(n) : o <= k
             g == compiledLists[trace[x].gen][trace[x].sequenceNumber + 1]
         IN  LastActionOfType(g.actions, "setKeySignature",
                              SetKeySignatureAction("C")).keySignature

\* the pitch of the note of entry n as written in the bars handed to initSequence
WrittenPitch(n) ==
    LET c == CHOOSE k \in CompilingCalls : inputs[k].list = trace[n].gen
    IN  sortedSequencedActionGroups(inputs[c].bars, inputs[c].bpm)
          [trace[n].sequenceNumber + 1].actions[trace[n].index].pitch

\* the noteStart that entry n, a noteEnd, ends
StartOfNoteEndedAt(n) ==
    LET starts == {j \in 1..(n - 1) : /\ trace[j].type = "noteStart"
                                      /\ trace[j].gen = trace[n].gen
                                      /\ trace[j].sequenceNumber = trace[n].sequenceNumber
                                      /\ trace[j].index = trace[n].index}
    IN  IF starts = {} THEN 0 ELSE CHOOSE j \in starts : \A o \in starts : o <= j

(***************************************************************************)
(* C28: a noteStart carries the pitch respelled under the key signature of *)
(* the most recent setKeySignature dispatched before it in the playthrough *)
(* (C when none has been dispatched); dispatching a setKeySignature never  *)
(* changes the pitch of a note whose noteStart was already emitted.        *)
(***************************************************************************)
C28_PitchFollowsKey ==
    \A n \in 1..Len(trace) :
        /\ trace[n].type = "noteStart" =>
              trace[n].pitch = adjustNotesToKeySignature(KeyInEffectAt(n), WrittenPitch(n))
        /\ (trace[n].type = "noteEnd" /\ StartOfNoteEndedAt(n) # 0) =>
              trace[n].pitch = trace[StartOfNoteEndedAt(n)].pitch

\* the same for the first playthrough after the hook was created
C28_PitchFollowsKeyInFirstPlaythrough ==
    \A n \in 1..Len(trace) :
        (\A j \in 1..(n - 1) : IsPlaythroughStart(j) => j = PlaythroughStartBefore(n)) =>
            /\ trace[n].type = "noteStart" =>
                  trace[n].pitch = adjustNotesToKeySignature(KeyInEffectAt(n), WrittenPitch(n))
            /\ (trace[n].type = "noteEnd" /\ StartOfNoteEndedAt(n) # 0) =>
                  trace[n].pitch = trace[StartOfNoteEndedAt(n)].pitch

(***************************************************************************)
(* generateSequenceFromNotation: from the text of a notation to bars.      *)
(* A text is a sequence of characters, a notation the sequence of its bars *)
(* (split at "|"), a bar the sequence of its tokens (split at " ").        *)
(***************************************************************************)
Char(s, i) == IF i \in 1..Len(s) THEN s[i] ELSE ""

Digits == <<"0", "1", "2", "3", "4", "5", "6", "7", "8", "9">>

IsDigit(ch) == \E d \in 1..10 : Digits[d] = ch

DigitValue(ch) == (CHOOSE d \in 1..10 : Digits[d] = ch) - 1

RECURSIVE NumberOfDigits(_)
\* the number a text of decimal digits stands for
NumberOfDigits(digits) ==
    IF digits = <<>> THEN 0
    ELSE 10 * NumberOfDigits(SubSeq(digits, 1, Len(digits) - 1))
           + DigitValue(digits[Len(digits)])

\* the longest run of decimal digits of s that starts at i
DigitsAt(s, i) ==
    LET ends == {k \in (i - 1)..Len(s) : \A x \in i..k : IsDigit(s[x])}
    IN  SubSeq(s, i, CHOOSE k \in ends : \A o \in ends : o <= k)

\* (1|2|4|8|16|32|64): the alternatives in the order in which they are tried
DurationAlternatives ==
    <<  <<"1">>, <<"2">>, <<"4">>, <<"8">>, <<"1", "6">>, <<"3", "2">>, <<"6", "4">> >>

StartsAt(s, i, a) == i + Len(a) - 1 <= Len(s) /\ SubSeq(s, i, i + Len(a) - 1) = a

\* the first alternative that, put at position i of s, leaves at least min and
\* at most max characters of s after it; 0 if there is none
AlternativeAt(s, i, min, max) ==
    LET fits == {a \in 1..Len(DurationAlternatives) :
                    /\ StartsAt(s, i, DurationAlternatives[a])
                    /\ Len(s) - (i + Len(DurationAlternatives[a]) - 1) >= min
                    /\ Len(s) - (i + Len(DurationAlternatives[a]) - 1) <= max}
    IN  IF fits = {} THEN 0 ELSE CHOOSE a \in fits : \A o \in fits : a <= o

\* the leftmost position from which a set of positions of s has a member; 0 if empty
Leftmost(positions) ==
    IF positions = {} THEN 0 ELSE CHOOSE i \in positions : \A o \in positions : i <= o

\* token.match(/:(1|2|4|8|16|32|64).?/)?.[0]: the leftmost ":" followed by an
\* alternative, with one more character if there is one; <<>> for no match
noteDurationAsFound(token) ==
    LET i == Leftmost({k \in 1..Len(token) :
                          token[k] = ":" /\ AlternativeAt(token, k + 1, 0, Len(token)) # 0})
        a == DurationAlternatives[AlternativeAt(token, i + 1, 0, Len(token))]
    IN  IF i = 0 THEN <<>>
        ELSE SubSeq(token, i, IF i + Len(a) + 1 <= Len(token) THEN i + Len(a) + 1
                              ELSE i + Len(a))

\* found.match(/(1|2|4|8|16|32|64).?$/)?.[0]: from the leftmost position at
\* which an alternative is followed by at most one character and the end
noteDuration(token) ==
    LET found == noteDurationAsFound(token)
        i == Leftmost({k \in 1..Len(found) : AlternativeAt(found, k, 0, 1) # 0})
    IN  IF i = 0 THEN <<>> ELSE SubSeq(found, i, Len(found))

\* duration.match(/(1|2|4|8|16|32|64)/)?.[0] as a number; 0 for no match
noteDurationValue(duration) ==
    LET i == Leftmost({k \in 1..Len(duration) : AlternativeAt(duration, k, 0, Len(duration)) # 0})
    IN  IF i = 0 THEN 0
        ELSE NumberOfDigits(DurationAlternatives[AlternativeAt(duration, i, 0, Len(duration))])

AllDigits(s) == \A k \in 1..Len(s) : IsDigit(s[k])

\* s.split(ch)[n - 1]: the characters between the (n-1)-th and the n-th ch
Piece(s, ch, n) ==
    LET at == {k \in 1..Len(s) : s[k] = ch}
        Nth(x) == IF x = 0 THEN 0
                  ELSE IF Cardinality(at) < x THEN Len(s) + 1
                  ELSE CHOOSE k \in at : Cardinality({o \in at : o <= k}) = x
    IN  SubSeq(s, Nth(n - 1) + 1, Nth(n) - 1)

\* !isNaN(+value) && +value > 0 for a value without radix prefix: Infinity,
\* or a decimal literal with optional sign, fraction and exponent that is not
\* negative and has a digit other than 0 in its mantissa
IsNumberAboveZero(value) ==
    LET unsigned == IF Char(value, 1) \in {"+", "-"} THEN Tail(value) ELSE value
        e == Leftmost({k \in 1..Len(unsigned) : unsigned[k] \in {"e", "E"}})
        mantissa == IF e = 0 THEN unsigned ELSE SubSeq(unsigned, 1, e - 1)
        exponent == IF e = 0 THEN <<"0">>
                    ELSE IF Char(unsigned, e + 1) \in {"+", "-"}
                         THEN SubSeq(unsigned, e + 2, Len(unsigned))
                         ELSE SubSeq(unsigned, e + 1, Len(unsigned))
        whole == Piece(mantissa, ".", 1)
        fraction == Piece(mantissa, ".", 2)
    IN  /\ Char(value, 1) # "-"
        /\ \/ unsigned = <<"I", "n", "f", "i", "n", "i", "t", "y">>
           \/ /\ Cardinality({k \in 1..Len(mantissa) : mantissa[k] = "."}) <= 1
              /\ AllDigits(whole) /\ AllDigits(fraction)
              /\ Len(whole) + Len(fraction) > 0
              /\ AllDigits(exponent) /\ exponent # <<>>
              /\ \E k \in 1..Len(mantissa) : IsDigit(mantissa[k]) /\ mantissa[k] # "0"

\* parseInt(value, 10): the digits after an optional sign, up to the first
\* character that is not a digit; NaN, written -1 here, without a digit
parseInt(value) ==
    LET from == IF Char(value, 1) \in {"+", "-"} THEN 2 ELSE 1
    IN  IF DigitsAt(value, from) = <<>> THEN -1
        ELSE IF Char(value, 1) = "-" THEN 0 - NumberOfDigits(DigitsAt(value, from))
        ELSE NumberOfDigits(DigitsAt(value, from))

RECURSIVE Joined(_)
\* the string a sequence of characters spells
Joined(s) == IF s = <<>> THEN "" ELSE s[1] \o Joined(Tail(s))

KeySignatures ==
    {"C", "G", "D", "A", "E", "B", "F#", "C#", "F", "Bb", "Eb", "Ab", "Db", "Gb"}

\* the action group a "command=value" token adds to its bar, <<>> for none
DirectiveGroups(token) ==
    LET command == Joined(Piece(token, "=", 1))
        value == Piece(token, "=", 2)
    IN  IF command = "" \/ value = <<>> THEN <<>>
        ELSE IF command = "bpm"
        THEN IF IsNumberAboveZero(value) THEN <<BPM(parseInt(value))>> ELSE <<>>
        ELSE IF command = "time"
        THEN IF /\ Cardinality({k \in 1..Len(value) : value[k] = "/"}) = 1
                /\ AllDigits(Piece(value, "/", 1)) /\ Piece(value, "/", 1) # <<>>
                /\ AllDigits(Piece(value, "/", 2)) /\ Piece(value, "/", 2) # <<>>
             THEN <<Time(NumberOfDigits(Piece(value, "/", 1)),
                         NumberOfDigits(Piece(value, "/", 2)))>>
             ELSE <<>>
        ELSE IF command = "key"
        THEN IF Joined(value) \in KeySignatures THEN <<Key(Joined(value))>> ELSE <<>>
        ELSE IF command = "autoSustain"
        THEN IF Joined(value) \in {"on", "off"} THEN <<Auto(Joined(value) = "on")>> ELSE <<>>
        ELSE <<>>

\* how many characters ([A-G][#bn]?[0-8]|([A-G][#bn]?[-+]?[1-4]?)) takes at
\* position i of s; 0 if it does not match there
NoteLengthAt(s, i) ==
    LET acc == IF Char(s, i + 1) \in {"#", "b", "n"} THEN 1 ELSE 0
        sign == IF Char(s, i + 1 + acc) \in {"-", "+"} THEN 1 ELSE 0
        octave == IF Char(s, i + 1 + acc + sign) \in {"1", "2", "3", "4"} THEN 1 ELSE 0
    IN  IF Char(s, i) \notin {"A", "B", "C", "D", "E", "F", "G"} THEN 0
        ELSE IF Char(s, i + 1 + acc) \in {"0", "1", "2", "3", "4", "5", "6", "7", "8"}
             THEN 2 + acc
             ELSE 1 + acc + sign + octave

\* the same with the [.~]? that may follow a note
NoteEntityLengthAt(s, i) ==
    IF NoteLengthAt(s, i) = 0 THEN 0
    ELSE NoteLengthAt(s, i) + (IF Char(s, i + NoteLengthAt(s, i)) \in {".", "~"} THEN 1 ELSE 0)

RECURSIVE NoteGroupLengthAt(_, _)
\* a note entity and every further "_" with a note entity after it
NoteGroupLengthAt(s, i) ==
    LET first == NoteEntityLengthAt(s, i)
    IN  IF first = 0 THEN 0
        ELSE IF Char(s, i + first) = "_" /\ NoteEntityLengthAt(s, i + first + 1) # 0
             THEN first + 1 + NoteGroupLengthAt(s, i + first + 1)
             ELSE first

\* token.match(patterns.toGetTheValueOf.timeBasedSequencableElement)?.[0]:
\* the note group or the "##" with optional "." the token begins with
timeBasedSequencableElement(token) ==
    IF NoteGroupLengthAt(token, 1) # 0 THEN SubSeq(token, 1, NoteGroupLengthAt(token, 1))
    ELSE IF Char(token, 1) = "#" /\ Char(token, 2) = "#"
         THEN SubSeq(token, 1, IF Char(token, 3) = "." THEN 3 ELSE 2)
         ELSE <<>>

\* the text of the start position the token ends with, for positions written
\* without a fraction: "@", a digit from 1 to 9, further digits; <<>> if it
\* does not end so
startPositionInBarAsExtracted(token) ==
    LET i == Leftmost({k \in 1..Len(token) :
                          /\ token[k] = "@"
                          /\ Char(token, k + 1) \in {"1", "2", "3", "4", "5", "6", "7", "8", "9"}
                          /\ AllDigits(SubSeq(token, k + 1, Len(token)))})
    IN  IF i = 0 THEN <<>> ELSE SubSeq(token, i + 1, Len(token))

\* the note action of one entity of a note group, <<>> if its pitch is no note
NoteActionsOfEntity(noteEntity, duration, dotted) ==
    LET i == Leftmost({k \in 1..Len(noteEntity) : NoteLengthAt(noteEntity, k) # 0})
        pitch == SubSeq(noteEntity, i, i + NoteLengthAt(noteEntity, i) - 1)
        acc == IF Char(pitch, 2) \in {"#", "b", "n"} THEN Char(pitch, 2) ELSE ""
        rest == SubSeq(pitch, IF acc = "" THEN 2 ELSE 3, Len(pitch))
        tied == \E k \in 1..Len(noteEntity) : noteEntity[k] = "~"
        isRelativeNote == rest = <<>> \/ (Len(rest) = 2 /\ rest[1] \in {"-", "+"}
                                            /\ rest[2] \in {"1", "2", "3", "4"})
        octave == IF rest = <<>> THEN 4
                  ELSE IF rest[1] = "+" THEN 4 + DigitValue(rest[2])
                  ELSE IF rest[1] = "-" THEN 4 - DigitValue(rest[2])
                  ELSE DigitValue(rest[1])
        isNote == isRelativeNote \/ (Len(rest) = 1 /\ IsDigit(rest[1]) /\ rest[1] # "9")
    IN  IF i = 0 \/ ~isNote THEN <<>>
        ELSE <<NoteAction(Pitch(pitch[1], acc, octave), duration, dotted, tied)>>

\* the note or rest group a token adds to its bar, or the duration it sets for
\* the tokens after it: element, duration and position are the three texts
\* extracted from the token, durationValue the number in the duration
SequencableElement(st, element, duration, durationValue, position) ==
    LET dotted == duration # <<>> /\ duration[Len(duration)] = "."
        used == IF durationValue # 0 THEN durationValue ELSE st.currentSetDuration
        Placed(actions) == IF position = <<>> THEN ActionGroup(actions)
                           ELSE ActionGroupAt(actions, NumberOfDigits(position))
        entities == Cardinality({k \in 1..Len(element) : element[k] = "_"}) + 1
    IN  IF element = <<>>
        THEN IF durationValue # 0 THEN [st EXCEPT !.currentSetDuration = durationValue]
             ELSE st
        ELSE IF element[1] = "#"
        THEN [st EXCEPT !.actionGroups = Append(@, Placed(<<RestAction(used, dotted)>>))]
        ELSE [st EXCEPT !.actionGroups =
                Append(@, Placed(Flatten([n \in 1..entities |->
                                   NoteActionsOfEntity(Piece(element, "_", n), used, dotted)])))]

\* the forEach body over the tokens of a bar: st holds currentSetDuration,
\* partialLength and actionGroupsForBar
ParseToken(st, token) ==
    IF \E k \in 1..Len(token) : token[k] = "="
    THEN [st EXCEPT !.actionGroups = @ \o DirectiveGroups(token)]
    ELSE IF Joined(token) = "[_"
    THEN [st EXCEPT !.actionGroups = Append(@, ActionGroup(<<SustainPedalDownAction>>))]
    ELSE IF Joined(token) = "_]"
    THEN [st EXCEPT !.actionGroups = Append(@, ActionGroup(<<SustainPedalUpAction>>))]
    ELSE IF Joined(token) = ">"
    THEN [st EXCEPT !.partialLength = TRUE]
    ELSE SequencableElement(st, timeBasedSequencableElement(token), noteDuration(token),
                            noteDurationValue(noteDuration(token)),
                            startPositionInBarAsExtracted(token))

RECURSIVE ParseTokens(_, _)
ParseTokens(st, tokens) ==
    IF tokens = <<>> THEN st ELSE ParseTokens(ParseToken(st, Head(tokens)), Tail(tokens))

RECURSIVE ParseBars(_, _)
\* the .filter and the .map over the bars of the notation: a bar without a
\* token is dropped, currentSetDuration lives across the bars
ParseBars(currentSetDuration, notation) ==
    IF notation = <<>> THEN <<>>
    ELSE IF Head(notation) = <<>> THEN ParseBars(currentSetDuration, Tail(notation))
    ELSE LET st == ParseTokens([currentSetDuration |-> currentSetDuration,
                                partialLength |-> FALSE, actionGroups |-> <<>>],
                               Head(notation))
         IN  <<Bar(FALSE, st.partialLength, st.actionGroups)>>
               \o ParseBars(st.currentSetDuration, Tail(notation))

\* barsForSequence as parsed from the notation, before directive bars are merged
barsForSequenceAsParsed(notation) == ParseBars(4, notation)

\* the tokens "C4:<n>", "C4:<n>.", "##:<n>" and "##:<n>."
DurationTokens ==
    {p \o <<":">> \o DurationAlternatives[n] \o d :
        p \in {<<"C", "4">>, <<"#", "#">>}, n \in 1..Len(DurationAlternatives),
        d \in {<<>>, <<".">>}}

\* the values 120, 90, 0, -5, 0.5, 120.7, abc and Infinity of a "bpm=" token
BPMValues ==
    {<<"1", "2", "0">>, <<"9", "0">>, <<"0">>, <<"-", "5">>, <<"0", ".", "5">>,
     <<"1", "2", "0", ".", "7">>, <<"a", "b", "c">>,
     <<"I", "n", "f", "i", "n", "i", "t", "y">>}

\* the notations ":8 C4 D4:2 E4", ":2 ## C4:8 ##", ":16 C4", "C4:8 D4 | E4" and
\* ":8 | C4 ##"
DefaultDurationTexts ==
    {<< << <<":", "8">>, <<"C", "4">>, <<"D", "4", ":", "2">>, <<"E", "4">> >> >>,
     << << <<":", "2">>, <<"#", "#">>, <<"C", "4", ":", "8">>, <<"#", "#">> >> >>,
     << << <<":", "1", "6">>, <<"C", "4">> >> >>,
     << << <<"C", "4", ":", "8">>, <<"D", "4">> >>, << <<"E", "4">> >> >>,
     << << <<":", "8">> >>, << <<"C", "4">>, <<"#", "#">> >> >>}

\* the notations "xyz C4", "C4:8 ?? ## D4", "C4xyz D4", "Dog C4", "xyz:8 C4" and
\* "C4:2abc D4"
UnknownTokenTexts ==
    {<< << <<"x", "y", "z">>, <<"C", "4">> >> >>,
     << << <<"C", "4", ":", "8">>, <<"?", "?">>, <<"#", "#">>, <<"D", "4">> >> >>,
     << << <<"C", "4", "x", "y", "z">>, <<"D", "4">> >> >>,
     << << <<"D", "o", "g">>, <<"C", "4">> >> >>,
     << << <<"x", "y", "z", ":", "8">>, <<"C", "4">> >> >>,
     << << <<"C", "4", ":", "2", "a", "b", "c">>, <<"D", "4">> >> >>}

\* the notations "<token>" and "bpm=<value> C4:4", and those above
NotationTexts ==
    {<< <<t>> >> : t \in DurationTokens}
      \cup {<< <<(<<"b", "p", "m", "=">> \o v), <<"C", "4", ":", "4">> >> >> : v \in BPMValues}
      \cup DefaultDurationTexts \cup UnknownTokenTexts

\* generateSequenceFromNotation applied to a notation, its argument and its
\* result noted
GenerateSequenceFromNotation ==
    /\ Len(inputs) < MaxInits
    /\ \E notation \in NotationTexts :
       \E barsForSequence \in {barsForSequenceAsParsed(notation)} :
          inputs' = Append(inputs,
                           [notation |-> notation,
                            barsForSequence |-> barsForSequence,
                            bars |-> generateSequenceFromNotation(barsForSequence),
                            bpm |-> bpmRef, barStarts |-> <<>>, list |-> 0])
    /\ UNCHANGED <<sequencerHasBeenInitializedRef, compiledLists, sequencedActionGroupsRef,
                   currentSequenceTimeRef, currentSequenceBarIndexRef, totalSequenceTimeRef,
                   sequenceIsPlayingRef, bpmRef, keySignatureRef, sequenceFrameTimeoutRef,
                   isPlaying, closures, timers, trace, calls>>

SpecParse == Init /\ [][GenerateSequenceFromNotation]_vars

(***************************************************************************)
(* C29: every setBPM action produced by generateSequenceFromNotation       *)
(* carries a bpm that is a positive integer; a "bpm=" token whose value is *)
(* not a positive integer (zero, negative, fractional, non-numeric)        *)
(* produces no action, and parsing of the remaining tokens continues.      *)
(***************************************************************************)
\* the value of the "bpm=" token a notation begins with
BPMValueWritten(notation) == Piece(notation[1][1], "=", 2)

IsPositiveIntegerText(value) ==
    /\ value # <<>>
    /\ AllDigits(value)
    /\ \E k \in 1..Len(value) : value[k] # "0"

\* the calls that were given "bpm=<value> C4:4"
BPMCalls ==
    {c \in 1..Len(inputs) :
        /\ Len(inputs[c].notation[1]) = 2
        /\ Piece(inputs[c].notation[1][1], "=", 1) = <<"b", "p", "m">>}

C29_PositiveIntegerBPM ==
    \A c \in BPMCalls :
        LET groups == inputs[c].barsForSequence[1].actionGroups
            setBPM == GroupsOfType(groups, "setBPM")
        IN  /\ \A x \in setBPM : groups[x].actions[1].bpm > 0
            /\ ~IsPositiveIntegerText(BPMValueWritten(inputs[c].notation)) => setBPM = {}
            /\ groups[Len(groups)] = Quarter(C4)
            /\ Len(groups) = Cardinality(setBPM) + 1

\* the same for values written as an integer with optional "-"
C29_PositiveIntegerBPMOfIntegers ==
    \A c \in BPMCalls :
        AllDigits(SubSeq(BPMValueWritten(inputs[c].notation),
                         IF Char(BPMValueWritten(inputs[c].notation), 1) = "-" THEN 2 ELSE 1,
                         Len(BPMValueWritten(inputs[c].notation)))) =>
        LET groups == inputs[c].barsForSequence[1].actionGroups
            setBPM == GroupsOfType(groups, "setBPM")
        IN  /\ \A x \in setBPM : groups[x].actions[1].bpm > 0
            /\ ~IsPositiveIntegerText(BPMValueWritten(inputs[c].notation)) => setBPM = {}
            /\ groups[Len(groups)] = Quarter(C4)
            /\ Len(groups) = Cardinality(setBPM) + 1

(***************************************************************************)
(* C30: for every n in {1,2,4,8,16,32,64} the token "<pitch>:<n>" yields a *)
(* note with duration n and dotted = false and "<pitch>:<n>." duration n   *)
(* with dotted = true; the same holds for the rest tokens "##:<n>" and     *)
(* "##:<n>.".                                                              *)
(***************************************************************************)
NoteValues == {1, 2, 4, 8, 16, 32, 64}

\* "<n>" as written
Written(n) ==
    IF n < 10 THEN <<Digits[n + 1]>> ELSE <<Digits[(n \div 10) + 1], Digits[(n % 10) + 1]>>

C30_DurationSuffix ==
    \A c \in 1..Len(inputs) : \A n \in NoteValues : \A dotted \in BOOLEAN :
        LET suffix == <<":">> \o Written(n) \o (IF dotted THEN <<".">> ELSE <<>>)
        IN  /\ inputs[c].notation = << <<(<<"C", "4">> \o suffix)>> >> =>
                  inputs[c].barsForSequence
                    = <<Bar(FALSE, FALSE, <<ActionGroup(<<NoteAction(C4, n, dotted, FALSE)>>)>>)>>
            /\ inputs[c].notation = << <<(<<"#", "#">> \o suffix)>> >> =>
                  inputs[c].barsForSequence
                    = <<Bar(FALSE, FALSE, <<ActionGroup(<<RestAction(n, dotted)>>)>>)>>

\* the same for all values but 16
C30_DurationSuffixButSixteen ==
    \A c \in 1..Len(inputs) : \A n \in NoteValues \ {16} : \A dotted \in BOOLEAN :
        LET suffix == <<":">> \o Written(n) \o (IF dotted THEN <<".">> ELSE <<>>)
        IN  /\ inputs[c].notation = << <<(<<"C", "4">> \o suffix)>> >> =>
                  inputs[c].barsForSequence
                    = <<Bar(FALSE, FALSE, <<ActionGroup(<<NoteAction(C4, n, dotted, FALSE)>>)>>)>>
            /\ inputs[c].notation = << <<(<<"#", "#">> \o suffix)>> >> =>
                  inputs[c].barsForSequence
                    = <<Bar(FALSE, FALSE, <<ActionGroup(<<RestAction(n, dotted)>>)>>)>>

(***************************************************************************)
(* C31: a bare ":<n>" token sets the default duration used by all          *)
(* following tokens that have no duration suffix of their own, whereas a   *)
(* ":<n>" attached to a note or rest token applies to that token only and  *)
(* leaves the default duration unchanged for the tokens after it.          *)
(***************************************************************************)
\* the number written after the ":" of a token; 0 for a token without ":"
SuffixWritten(token) ==
    LET i == Leftmost({k \in 1..Len(token) : token[k] = ":"})
    IN  IF i = 0 \/ DigitsAt(token, i + 1) = <<>> THEN 0
        ELSE NumberOfDigits(DigitsAt(token, i + 1))

IsBareDuration(token) == Char(token, 1) = ":" /\ SuffixWritten(token) # 0

RECURSIVE DurationsAsWritten(_, _)
\* the durations the notes and rests of a token list are to get, in their
\* order, with the default duration at its start
DurationsAsWritten(tokens, default) ==
    IF tokens = <<>> THEN <<>>
    ELSE IF IsBareDuration(Head(tokens))
    THEN DurationsAsWritten(Tail(tokens), SuffixWritten(Head(tokens)))
    ELSE <<IF SuffixWritten(Head(tokens)) # 0 THEN SuffixWritten(Head(tokens)) ELSE default>>
           \o DurationsAsWritten(Tail(tokens), default)

\* the durations of the notes and rests of parsed bars, in their order
DurationsAsParsed(bars) ==
    LET actions == Flatten([b \in 1..Len(bars) |-> AllActionsOfBar(bars[b])])
    IN  [k \in 1..Len(actions) |-> actions[k].duration]

DefaultDurationCalls == {c \in 1..Len(inputs) : inputs[c].notation \in DefaultDurationTexts}

C31_BareDurationSetsDefault ==
    \A c \in DefaultDurationCalls :
        DurationsAsParsed(inputs[c].barsForSequence)
          = DurationsAsWritten(Flatten(inputs[c].notation), 4)

\* the same for notations that do not write the value 16
C31_BareDurationSetsDefaultButSixteen ==
    \A c \in DefaultDurationCalls :
        (\A b \in 1..Len(inputs[c].notation) : \A t \in 1..Len(inputs[c].notation[b]) :
            SuffixWritten(inputs[c].notation[b][t]) # 16) =>
        DurationsAsParsed(inputs[c].barsForSequence)
          = DurationsAsWritten(Flatten(inputs[c].notation), 4)

(***************************************************************************)
(* C32: a token that is not entirely a directive, pedal marker, ">", bare  *)
(* duration, rest or valid note group (an unknown word, or a pitch         *)
(* followed by trailing garbage) produces no action group and changes no   *)
(* parser state, and the remaining tokens of the bar are parsed as if the  *)
(* token were absent.                                                      *)
(***************************************************************************)
\* a duration suffix and a start position as they may follow a note group or
\* a rest: nothing, ":<n>" with a note value and an optional ".", "@<p>"
SuffixWellFormed(r) ==
    LET digits == DigitsAt(r, 2)
        dot == IF Char(r, 1) = ":" /\ Char(r, Len(digits) + 2) = "." THEN 1 ELSE 0
        position == IF Char(r, 1) = ":" THEN SubSeq(r, Len(digits) + 2 + dot, Len(r)) ELSE r
    IN  /\ Char(r, 1) = ":" => SuffixWritten(r) \in NoteValues
        /\ \/ position = <<>>
           \/ Char(position, 1) = "@" /\ Len(position) > 1 /\ AllDigits(Tail(position))

\* the token is, as a whole, one of the forms the notation knows
IsRecognizedToken(token) ==
    LET element == timeBasedSequencableElement(token)
    IN  \/ \E k \in 1..Len(token) : token[k] = "="
        \/ Joined(token) \in {"[_", "_]", ">"}
        \/ element = <<>> /\ Char(token, 1) = ":" /\ SuffixWellFormed(token)
        \/ element # <<>> /\ SuffixWellFormed(SubSeq(token, Len(element) + 1, Len(token)))

\* the notation without the tokens that are not recognized
WithoutUnrecognizedTokens(notation) ==
    [b \in 1..Len(notation) |-> SelectSeq(notation[b], IsRecognizedToken)]

UnknownTokenCalls == {c \in 1..Len(inputs) : inputs[c].notation \in UnknownTokenTexts}

C32_UnrecognizedTokenDropped ==
    \A c \in UnknownTokenCalls :
        inputs[c].barsForSequence
          = barsForSequenceAsParsed(WithoutUnrecognizedTokens(inputs[c].notation))

\* a token in which the parser finds neither a pitch nor a rest at its start
\* and no duration
HasNothingToRead(token) ==
    timeBasedSequencableElement(token) = <<>> /\ noteDuration(token) = <<>>

\* the same for notations whose unrecognized tokens have nothing to read
C32_UnreadableTokenDropped ==
    \A c \in UnknownTokenCalls :
        (\A b \in 1..Len(inputs[c].notation) : \A t \in 1..Len(inputs[c].notation[b]) :
            \/ IsRecognizedToken(inputs[c].notation[b][t])
            \/ HasNothingToRead(inputs[c].notation[b][t])) =>
        inputs[c].barsForSequence
          = barsForSequenceAsParsed(WithoutUnrecognizedTokens(inputs[c].notation))

(***************************************************************************)
(* Start positions below 1                                                 *)
(***************************************************************************)
\* the call notes the text it was given
WithNotation(m, notation) ==
    [m EXCEPT !.inputs[Len(m.inputs)] =
        [notation |-> notation, barsForSequence |-> @.barsForSequence, bars |-> @.bars,
         bpm |-> @.bpm, barStarts |-> @.barStarts, list |-> @.list]]

\* initSequenceWithNotation(notation, onEvent): the text is parsed, directive
\* bars are merged and the bars are compiled
InitSequenceWithNotationText(notation) ==
    \E barsForSequence \in {barsForSequenceAsParsed(notation)} :
        /\ Commit(WithNotation(initSequenceWithNotation(
                                 Call(Machine, "initSequence()", TRUE), barsForSequence),
                               notation))
        /\ calls' = calls + 1

\* bars with note groups at the positions 0 and -1, and with valid positions
PositionedBars ==
    <<  \* 1 C4:4, D4:1 at 0, E4:4 | E4:4
        <<Bar(FALSE, FALSE, <<Quarter(C4), ActionGroupAt(<<NoteAction(D4, 1, FALSE, FALSE)>>, 0),
                              Quarter(E4)>>),
          Bar(FALSE, FALSE, <<Quarter(E4)>>)>>,
        \* 2 partial: C4:4, D4:2 at -1 | E4:4
        <<Bar(FALSE, TRUE, <<Quarter(C4), ActionGroupAt(<<NoteAction(D4, 2, FALSE, FALSE)>>, 0 - 1)>>),
          Bar(FALSE, FALSE, <<Quarter(E4)>>)>>,
        \* 3 C4 and E4 together at 0, D4:4
        <<Bar(FALSE, FALSE, <<ActionGroupAt(<<NoteAction(C4, 4, FALSE, FALSE),
                                              NoteAction(E4, 4, FALSE, FALSE)>>, 0),
                              Quarter(D4)>>)>>,
        \* 4 C4:4 at 2, D4:4 at 0 | E4:4
        <<Bar(FALSE, FALSE, <<ActionGroupAt(<<NoteAction(C4, 4, FALSE, FALSE)>>, 2),
                              ActionGroupAt(<<NoteAction(D4, 4, FALSE, FALSE)>>, 0)>>),
          Bar(FALSE, FALSE, <<Quarter(E4)>>)>>,
        \* 5 C4:4, D4:4 at 3
        <<Bar(FALSE, FALSE, <<Quarter(C4), ActionGroupAt(<<NoteAction(D4, 4, FALSE, FALSE)>>, 3)>>)>> >>

\* the notations "C4 D4:1@0 E4:4 | E4", "> C4 D4:2@-1 | E4", "C4_E4@0 D4",
\* "C4@2 D4@0 | E4", "C4 D4@3" and "C4@0.5 D4"
PositionTexts ==
    <<  << << <<"C", "4">>, <<"D", "4", ":", "1", "@", "0">>, <<"E", "4", ":", "4">> >>,
           << <<"E", "4">> >> >>,
        << << <<">">>, <<"C", "4">>, <<"D", "4", ":", "2", "@", "-", "1">> >>,
           << <<"E", "4">> >> >>,
        << << <<"C", "4", "_", "E", "4", "@", "0">>, <<"D", "4">> >> >>,
        << << <<"C", "4", "@", "2">>, <<"D", "4", "@", "0">> >>, << <<"E", "4">> >> >>,
        << << <<"C", "4">>, <<"D", "4", "@", "3">> >> >>,
        << << <<"C", "4", "@", "0", ".", "5">>, <<"D", "4">> >> >> >>

InitSequencePositioned ==
    /\ Len(inputs) < MaxInits
    /\ \E n \in DOMAIN PositionedBars : InitSequenceWith(PositionedBars[n])

InitSequenceWithPositionText ==
    /\ Len(inputs) < MaxInits
    /\ \E n \in DOMAIN PositionTexts : InitSequenceWithNotationText(PositionTexts[n])

NextPositions ==
    \/ InitSequencePositioned
    \/ InitSequenceWithPositionText

SpecPositions == Init /\ [][NextPositions]_vars

(***************************************************************************)
(* C33: a note group with an explicit start position below 1, whether      *)
(* passed to initSequence with startPositionInBar < 1 or written in        *)
(* notation with an "@p" suffix where p < 1, produces no compiled group    *)
(* and does not count towards the bar's rendered length, while all other   *)
(* groups of the bar are compiled unchanged.                               *)
(***************************************************************************)
\* the token is written with "@p" and p is 0, below 0 or 0.<digits>
IsWrittenBelowOne(token) ==
    LET i == Leftmost({k \in 1..Len(token) : token[k] = "@"})
    IN  i # 0 /\ Char(token, i + 1) \in {"0", "-"}

IsWrittenFromOne(token) == ~IsWrittenBelowOne(token)

IsNoteGroupBelowOne(g) ==
    isNoteActionGroup(g) /\ g.hasStartPosition /\ g.startPositionInBar < 1

IsNotBelowOne(g) == ~IsNoteGroupBelowOne(g)

\* the bars handed over without the note groups positioned below 1
BarsWithoutGroupsBelowOne(bars) ==
    [b \in 1..Len(bars) |->
        [bars[b] EXCEPT !.actionGroups = SelectSeq(@, IsNotBelowOne)]]

\* the notation without the tokens positioned below 1
NotationWithoutTokensBelowOne(notation) ==
    [b \in 1..Len(notation) |-> SelectSeq(notation[b], IsWrittenFromOne)]

\* start, duration and actions of every compiled group, and the bar starts
PlacementOf(list, barStarts) ==
    [groups |-> [k \in 1..Len(list) |->
                    <<list[k].startTimeInSequenceInMs, list[k].durationInMs, list[k].actions>>],
     barStarts |-> barStarts]

\* what compiling the bars at the tempo bpm gives
PlacementOfBars(bars, bpm) ==
    PlacementOf(sortedSequencedActionGroups(bars, bpm),
                Append(CompileAll(bars, bpm).barStartTimes,
                       CompileAll(bars, bpm).currentBarStartTimeInSequence))

PlacementOfCall(c) == PlacementOf(compiledLists[inputs[c].list], inputs[c].barStarts)

IsNotationCall(c) == "notation" \in DOMAIN inputs[c]

C33_PositionBelowOneDropped ==
    \A c \in CompilingCalls :
        /\ ~IsNotationCall(c) =>
              PlacementOfCall(c)
                = PlacementOfBars(BarsWithoutGroupsBelowOne(inputs[c].bars), inputs[c].bpm)
        /\ IsNotationCall(c) =>
              PlacementOfCall(c)
                = PlacementOfBars(
                    generateSequenceFromNotation(
                      barsForSequenceAsParsed(
                        NotationWithoutTokensBelowOne(inputs[c].notation))),
                    inputs[c].bpm)

\* the same for the groups passed to initSequence
C33_PositionBelowOneDroppedFromBars ==
    \A c \in CompilingCalls :
        ~IsNotationCall(c) =>
            PlacementOfCall(c)
              = PlacementOfBars(BarsWithoutGroupsBelowOne(inputs[c].bars), inputs[c].bpm)

(***************************************************************************)
(* getRestsForDurationInMs, one turn of its while loop per step            *)
(*                                                                         *)
(* Lengths are counted in 64ths of a millisecond: for a tempo that divides *)
(* 60000 every note value, dotted or not, is then a whole number, as it is *)
(* an exact binary fraction in the code.  The call in progress is the last *)
(* entry of inputs, with its locals rests and remainingDuration.           *)
(***************************************************************************)
In64ths(ms) == ms * 64

\* const restDurations: NoteDuration[] = [1, 2, 4, 8, 16, 32, 64]
restDurations == <<1, 2, 4, 8, 16, 32, 64>>

baseDurationInMs(bpm, restDuration) == (In64ths(quarterNoteDurationInMs(bpm)) * 4) \div restDuration

dottedDurationInMs(bpm, restDuration) == (baseDurationInMs(bpm, restDuration) * 3) \div 2

RECURSIVE RestsFor(_, _, _)
\* the for loop over restDurations from index i on: the first rest that fits
\* into remainingDuration, dotted tried before plain; <<>> if none fits
RestsFor(bpm, remainingDuration, i) ==
    IF i > Len(restDurations) THEN <<>>
    ELSE IF dottedDurationInMs(bpm, restDurations[i]) <= remainingDuration
    THEN <<[duration |-> restDurations[i], dotted |-> TRUE]>>
    ELSE IF baseDurationInMs(bpm, restDurations[i]) <= remainingDuration
    THEN <<[duration |-> restDurations[i], dotted |-> FALSE]>>
    ELSE RestsFor(bpm, remainingDuration, i + 1)

RestLengthIn64ths(bpm, rest) ==
    IF rest.dotted THEN dottedDurationInMs(bpm, rest.duration)
    ELSE baseDurationInMs(bpm, rest.duration)

\* one test of the while condition and, if it holds, one run of the for loop
RestsWhile(call, found) ==
    IF ~(call.remainingDuration > 0) THEN [call EXCEPT !.returned = TRUE]
    ELSE IF found = <<>> THEN call
    ELSE [call EXCEPT !.rests = @ \o found,
                      !.remainingDuration = @ - RestLengthIn64ths(call.bpm, found[1])]

\* tempos and durations in ms the function is called with
RestBPMs == {120, 60}

RestDurationsInMs == {31, 50, 125, 250, 500, 750, 1000, 1300, 1500, 2000, 2250, 4500}

RestsCallInProgress == inputs # <<>> /\ ~inputs[Len(inputs)].returned

GetRestsForDurationInMs ==
    /\ Len(inputs) < MaxInits
    /\ ~RestsCallInProgress
    /\ \E bpm \in RestBPMs, duration \in RestDurationsInMs :
          inputs' = Append(inputs, [bpm |-> bpm, duration |-> duration, rests |-> <<>>,
                                    remainingDuration |-> In64ths(duration),
                                    returned |-> FALSE])
    /\ UNCHANGED <<sequencerHasBeenInitializedRef, compiledLists, sequencedActionGroupsRef,
                   currentSequenceTimeRef, currentSequenceBarIndexRef, totalSequenceTimeRef,
                   sequenceIsPlayingRef, bpmRef, keySignatureRef, sequenceFrameTimeoutRef,
                   isPlaying, closures, timers, trace, calls>>

GetRestsWhile ==
    /\ RestsCallInProgress
    /\ \E found \in {RestsFor(inputs[Len(inputs)].bpm,
                              inputs[Len(inputs)].remainingDuration, 1)} :
          inputs' = [inputs EXCEPT ![Len(inputs)] = RestsWhile(@, found)]
    /\ UNCHANGED <<sequencerHasBeenInitializedRef, compiledLists, sequencedActionGroupsRef,
                   currentSequenceTimeRef, currentSequenceBarIndexRef, totalSequenceTimeRef,
                   sequenceIsPlayingRef, bpmRef, keySignatureRef, sequenceFrameTimeoutRef,
                   isPlaying, closures, timers, trace, calls>>

NextRests ==
    \/ GetRestsForDurationInMs
    \/ GetRestsWhile

SpecRests == Init /\ [][NextRests]_vars

\* the loop keeps running while the call is in progress
SpecRestsFair == SpecRests /\ WF_vars(GetRestsWhile)

(***************************************************************************)
(* C34: getRestsForDurationInMs(bpm, d) terminates for every positive      *)
(* duration d and returns rests chosen greedily (largest fitting value     *)
(* first, dotted before plain) whose summed duration is within one unit of *)
(* d, in particular for d = 1300 ms at BPM 120.                            *)
(***************************************************************************)
\* the rests there are: every note value, plain and dotted
AllRests == {[duration |-> restDurations[i], dotted |-> d] :
                i \in 1..Len(restDurations), d \in BOOLEAN}

\* the summed length of the first n rests of a call
RestsSum(call, n) ==
    SeqSum([k \in 1..n |-> RestLengthIn64ths(call.bpm, call.rests[k])])

\* rest k of the call is the longest that fits into what the rests before it left
IsLargestFitting(call, k) ==
    LET left == In64ths(call.duration) - RestsSum(call, k - 1)
    IN  /\ RestLengthIn64ths(call.bpm, call.rests[k]) <= left
        /\ \A r \in AllRests :
              RestLengthIn64ths(call.bpm, r) <= left =>
                  RestLengthIn64ths(call.bpm, r) <= RestLengthIn64ths(call.bpm, call.rests[k])

RestsCalled(k) == Len(inputs) >= k

RestsReturned(k) == Len(inputs) >= k /\ inputs[k].returned

\* what a call has returned is greedy and sums to d within one millisecond
C34_RestsWhenReturned ==
    \A k \in 1..Len(inputs) :
        inputs[k].returned =>
            /\ \A x \in 1..Len(inputs[k].rests) : IsLargestFitting(inputs[k], x)
            /\ RestsSum(inputs[k], Len(inputs[k].rests)) - In64ths(inputs[k].duration)
                 \in (0 - In64ths(1))..In64ths(1)

C34_RestsForDuration ==
    /\ []C34_RestsWhenReturned
    /\ \A k \in 1..MaxInits : RestsCalled(k) ~> RestsReturned(k)

(***************************************************************************)
(* C35: within one playthrough (from sequenceStart to the automatic        *)
(* sequenceEnd), for any interleaving of pauseSequence and playSequence    *)
(* calls, each compiled group is dispatched exactly once: every            *)
(* non-suppressed note yields exactly one noteStart, every rest one        *)
(* restStart and every pedal group one pedal event.                        *)
(***************************************************************************)
\* the first sequenceEnd after entry s; 0 if there is none
FirstEndAfter(s) ==
    IF EndsAfter(s) = {} THEN 0
    ELSE CHOOSE e \in EndsAfter(s) : \A o \in EndsAfter(s) : e <= o

\* entry s is a sequenceStart whose playthrough ran to its automatic end e
\* with no other calls than those named in between
IsPlaythroughWith(s, e, callsBetween) ==
    /\ trace[s].type = "sequenceStart"
    /\ e = FirstEndAfter(s)
    /\ e # 0
    /\ IsAutomaticEnd(e)
    /\ \A x \in (s + 1)..(e - 1) :
          trace[x].type \in CallTypes => trace[x].type \in callsBetween

\* the entries of a type from s on that belong to action i of group n
EventsFrom(s, type, n, i) ==
    {k \in (s + 1)..Len(trace) :
        /\ trace[k].type = type
        /\ trace[k].gen = trace[s].gen
        /\ trace[k].sequenceNumber = n - 1
        /\ trace[k].index = i}

\* what one dispatch of each group is to emit, once
EveryGroupOnceFrom(s) ==
    LET list == compiledLists[trace[s].gen]
    IN  \A n \in 1..Len(list) :
          /\ Cardinality(EventsFrom(s, "dispatch", n, 0)) = 1
          /\ \A i \in 1..Len(list[n].actions) :
                LET type == list[n].actions[i].type
                IN  /\ (type = "note" /\ ~IsTieTarget(list, n, i)) =>
                          Cardinality(EventsFrom(s, "noteStart", n, i)) = 1
                    /\ type = "rest" =>
                          Cardinality(EventsFrom(s, "restStart", n, i)) = 1
                    /\ type \in {"sustainPedalDown", "sustainPedalUp"} =>
                          Cardinality(EventsFrom(s, type, n, i)) = 1

\* checked once the playthrough has ended, nothing was called since and every
\* dispatch that was set has run (a group that starts at the total duration is
\* dispatched right after the sequenceEnd)
C35_DispatchedOnce ==
    \A s \in 1..Len(trace) : \A e \in (s + 1)..Len(trace) :
        ( /\ IsPlaythroughWith(s, e, {"pauseSequence()", "playSequence()"})
          /\ NoCallAfter(e)
          /\ PendingTimers("dispatch") = {} ) =>
            EveryGroupOnceFrom(s)

\* the same for a playthrough in and before which nothing is paused or stopped
C35_DispatchedOnceUninterrupted ==
    \A s \in 1..Len(trace) : \A e \in (s + 1)..Len(trace) :
        ( /\ IsPlaythroughWith(s, e, {})
          /\ \A x \in 1..s : trace[x].type \notin {"pauseSequence()", "stopSequence()"}
          /\ NoCallAfter(e)
          /\ PendingTimers("dispatch") = {} ) =>
            EveryGroupOnceFrom(s)

(***************************************************************************)
(* An event listener that calls back into the hook: onEvent is run inside  *)
(* sequenceLoop, after sequenceLoop has read sequenceIsPlayingRef and      *)
(* currentSequenceTimeRef into its locals.  The listener modelled here     *)
(* calls pauseSequence() or stopSequence() when it is given the barStart   *)
(* of one bar.                                                             *)
(***************************************************************************)
ListenerCalls == {"pauseSequence()", "stopSequence()"}

\* onEvent({type: "barStart", barIndex}) of a listener that reacts to the bar
\* reactsTo with the call reaction
onEvent(m, barIndex, reactsTo, reaction) ==
    IF barIndex # reactsTo THEN m
    ELSE IF reaction = "pauseSequence()"
    THEN pauseSequence(Call(m, reaction, m.initialized /\ m.playing))
    ELSE stopSequence(Call(m, reaction, m.initialized))

RECURSIVE ScheduleFrameWithListener(_, _, _, _, _)
\* sequencedActionGroupsForFrame.forEach with the listener called at barStart
ScheduleFrameWithListener(m, groups, currentSequenceTime, reactsTo, reaction) ==
    IF groups = <<>> THEN m
    ELSE LET g == Head(groups)
             m1 == IF m.barIndex = NullBarIndex \/ m.barIndex = 0 \/ g.barIndex > m.barIndex
                   THEN onEvent(Emit(m, Entry("barStart", m.current, g.sequenceNumber,
                                              g.barIndex, g.startTimeInSequenceInMs,
                                              NoPitch, 0, m.clock)),
                                g.barIndex, reactsTo, reaction)
                   ELSE m
             m2 == [m1 EXCEPT !.barIndex = g.barIndex]
             m3 == SetTimeout(m2, Timer(0, "dispatch",
                                        g.startTimeInSequenceInMs - currentSequenceTime,
                                        m.current, g.sequenceNumber, 0, currentSequenceTime))
         IN  ScheduleFrameWithListener(m3, Tail(groups), currentSequenceTime, reactsTo, reaction)

\* sequenceLoop with that listener: sequenceIsPlaying, currentSequenceTime
\* and totalSequenceTime are the values read before the forEach
sequenceLoopWithListener(m, reactsTo, reaction) ==
    LET sequenceIsPlaying == m.playing
        currentSequenceTime == m.clock
        totalSequenceTimeNow == m.total
        m1 == ScheduleFrameWithListener(m, sequencedActionGroupsForFrame(m),
                                        currentSequenceTime, reactsTo, reaction)
        id == FreshTimerId(m1)
        m2 == IF sequenceIsPlaying /\ currentSequenceTime < totalSequenceTimeNow
              THEN [SetTimeout(m1, Timer(id, "tick", sequenceFrameLength, m1.current, 0, 0,
                                         currentSequenceTime))
                      EXCEPT !.frameTimeout = id]
              ELSE m1
    IN  IF currentSequenceTime >= totalSequenceTimeNow THEN stopSequence(m2) ELSE m2

\* the bars with a group in the frame that the due tick opens
BarsStartingInNextFrame ==
    {CurrentList(Machine)[n].barIndex :
        n \in {x \in 1..Len(CurrentList(Machine)) :
                 /\ CurrentList(Machine)[x].startTimeInSequenceInMs
                      >= currentSequenceTimeRef + sequenceFrameLength
                 /\ CurrentList(Machine)[x].startTimeInSequenceInMs
                      < currentSequenceTimeRef + 2 * sequenceFrameLength}}

\* the tick callback when the listener reacts to a bar that has a group in its frame
TickWithListener ==
    /\ calls < MaxCalls
    /\ DueIndex # 0
    /\ timers[DueIndex].kind = "tick"
    /\ \E reactsTo \in BarsStartingInNextFrame : \E reaction \in ListenerCalls :
          LET m == [WithoutTimer(Machine, DueIndex) EXCEPT !.clock = @ + sequenceFrameLength]
          IN  Commit(sequenceLoopWithListener(Emit(m, ControlEvent(m, "tick")),
                                              reactsTo, reaction))
    /\ calls' = calls + 1

NextListener ==
    \/ InitSequence
    \/ PlaySequence
    \/ TickWithListener
    \/ Advance
    \/ Tick
    \/ Dispatch
    \/ NoteOrRestEnd

SpecListener == Init /\ [][NextListener]_vars

(***************************************************************************)
(* C36: whenever the transport is not playing, after pauseSequence or      *)
(* stopSequence has returned, including when they are called from inside   *)
(* an event listener (e.g. a barStart handler invoked during a tick), no   *)
(* tick is pending and the clock no longer advances until the next         *)
(* playSequence().                                                         *)
(***************************************************************************)
NoTickWhileNotPlaying == ~sequenceIsPlayingRef => PendingTimers("tick") = {}

NoAdvanceWhileNotPlaying ==
    (~sequenceIsPlayingRef /\ ~sequenceIsPlayingRef') =>
        ~(currentSequenceTimeRef' > currentSequenceTimeRef)

C36_AtRestWhenNotPlaying ==
    /\ []NoTickWhileNotPlaying
    /\ [][NoAdvanceWhileNotPlaying]_vars

(***************************************************************************)
(* Replay                                                                   *)
(***************************************************************************)

\* the events a playthrough emits from its ticks and dispatches; the noteEnd
\* and restEnd of a note or rest come from a timer of their own, set at the
\* noteStart or restStart with the delay that entry records, and may run after
\* the sequenceEnd
EmittedEventTypes == GroupEventTypes \cup {"sequenceStart", "sequenceEnd"}

\* what a listener can tell of an event: its type, the group and action it
\* belongs to, the pitch, the start time, the clock, and (for a note or rest)
\* the time from its start to its end
AsHeard(e) == <<e.type, e.sequenceNumber, e.index, e.pitch, e.start, e.at, e.delay>>

\* the events emitted in entries from..to, in the order they were emitted
RECURSIVE EventsHeardBetween(_, _)
EventsHeardBetween(from, to) ==
    IF from > to THEN <<>>
    ELSE IF trace[from].type \in EmittedEventTypes
         THEN <<AsHeard(trace[from])>> \o EventsHeardBetween(from + 1, to)
         ELSE EventsHeardBetween(from + 1, to)

\* entry j starts a playthrough of a list and entry p the next one of the same
\* list, with nothing called in between but (where allowed) a stopSequence();
\* the first has ended, and the second has ended and run out as well
IsReplay(j, p, callsBetween) ==
    /\ IsPlaythroughStart(j)
    /\ IsPlaythroughStart(p)
    /\ j < p
    /\ trace[j].gen = trace[p].gen
    /\ \A x \in (j + 1)..(p - 1) :
          trace[x].type \in CallTypes => trace[x].type \in callsBetween
    /\ \/ \E e \in (j + 1)..(p - 1) : trace[e].type = "sequenceEnd"
       \/ \E x \in (j + 1)..(p - 1) : IsCallAt(x, "stopSequence()")
    /\ NoCallAfter(p)
    /\ EndsAfter(p) # {}
    /\ timers = <<>>

IsPrefixOf(a, b) == Len(a) <= Len(b) /\ SubSeq(b, 1, Len(a)) = a

\* every setBPM and setKeySignature of the list is dispatched before the first
\* note or rest
DirectivesLeadList(list) ==
    \A n \in 1..Len(list) : \A k \in 1..Len(list) :
        ( /\ GroupsOfType(<<list[n]>>, "setBPM") \cup GroupsOfType(<<list[n]>>, "setKeySignature") # {}
          /\ GroupsOfType(<<list[k]>>, "note") \cup GroupsOfType(<<list[k]>>, "rest") # {} ) =>
              n <= k

(***************************************************************************)
(* C37: after a playthrough has ended, by itself or by stopSequence(), a   *)
(* second playSequence() on the same compiled list emits the same events   *)
(* in the same order, with the same pitches, the same start times and the  *)
(* same lengths from noteStart to noteEnd, as the first playthrough did    *)
(* (as far as the first playthrough got, when it was stopped).             *)
(***************************************************************************)
C37_ReplayEmitsSame ==
    \A j \in 1..Len(trace) : \A p \in 1..Len(trace) :
        IsReplay(j, p, {"stopSequence()"}) =>
            IF NoCallBetween(j, p)
            THEN EventsHeardBetween(j, p - 1) = EventsHeardBetween(p, Len(trace))
            ELSE \A x \in (j + 1)..(p - 1) :
                    (IsCallAt(x, "stopSequence()") /\ NoCallBetween(j, x)) =>
                        IsPrefixOf(EventsHeardBetween(j, x - 1),
                                   EventsHeardBetween(p, Len(trace)))

\* the same, for lists whose tempo and key are set before the first note
C37_ReplayEmitsSameWhenDirectivesLead ==
    \A j \in 1..Len(trace) : \A p \in 1..Len(trace) :
        ( /\ IsReplay(j, p, {})
          /\ DirectivesLeadList(compiledLists[trace[j].gen]) ) =>
              EventsHeardBetween(j, p - 1) = EventsHeardBetween(p, Len(trace))

(***************************************************************************)
(* Notes and rests that were started                                       *)
(***************************************************************************)

\* "bpm=600 > C4:8 ##:8"
ScoreWithRest ==
    <<Bar(FALSE, TRUE, <<Fast, Single(C4, 8, FALSE), ActionGroup(<<RestAction(8, FALSE)>>)>>)>>

SoundingScores == <<ScoreWithRest>>

\* one initSequence, and then playSequence, pauseSequence and stopSequence
SoundingInit ==
    /\ calls = 0
    /\ \E i \in DOMAIN SoundingScores : InitSequenceWith(SoundingScores[i])

NextSounding ==
    \/ SoundingInit
    \/ PlaySequence
    \/ PauseSequence
    \/ StopSequence
    \/ Advance
    \/ Tick
    \/ Dispatch
    \/ NoteOrRestEnd

SpecSounding == Init /\ [][NextSounding]_vars

\* the runtime runs every callback whose timeout has expired, and time passes
SpecSoundingFair ==
    /\ SpecSounding
    /\ WF_vars(Advance)
    /\ WF_vars(Tick)
    /\ WF_vars(Dispatch)
    /\ WF_vars(NoteOrRestEnd)

StartTypeOf(endType) == IF endType = "noteEnd" THEN "noteStart" ELSE "restStart"

\* how many entries of a type the first n entries of the history hold for
\* action i of group sn of list gen
CountUpTo(n, type, gen, sn, i) ==
    Cardinality({k \in 1..n : /\ trace[k].type = type
                              /\ trace[k].gen = gen
                              /\ trace[k].sequenceNumber = sn
                              /\ trace[k].index = i})

\* the end callbacks of that action that are still to run
PendingEnds(endType, gen, sn, i) ==
    Cardinality({k \in 1..Len(timers) : /\ timers[k].kind = endType
                                        /\ timers[k].gen = gen
                                        /\ timers[k].sequenceNumber = sn
                                        /\ timers[k].index = i})

\* at every point of the history an action has ended at most as often as it
\* has started, and every start that has not ended has its end callback set
StartsAndEndsPaired ==
    \A gen \in 1..Len(compiledLists) : \A sn \in 0..(Len(compiledLists[gen]) - 1) :
    \A i \in 1..Len(compiledLists[gen][sn + 1].actions) :
    \A endType \in {"noteEnd", "restEnd"} :
        /\ \A n \in 1..Len(trace) :
              CountUpTo(n, endType, gen, sn, i) <= CountUpTo(n, StartTypeOf(endType), gen, sn, i)
        /\ CountUpTo(Len(trace), StartTypeOf(endType), gen, sn, i)
              - CountUpTo(Len(trace), endType, gen, sn, i)
             = PendingEnds(endType, gen, sn, i)

\* an end is only ever emitted for an action of the matching type
EndsAreOfActions ==
    \A k \in 1..Len(trace) :
        trace[k].type \in {"noteEnd", "restEnd"} =>
            compiledLists[trace[k].gen][trace[k].sequenceNumber + 1].actions[trace[k].index].type
               = (IF trace[k].type = "noteEnd" THEN "note" ELSE "rest")

\* every note and rest that was started has ended
AllEnded ==
    \A k \in 1..Len(timers) : timers[k].kind \notin {"noteEnd", "restEnd"}

(***************************************************************************)
(* C38: every noteStart is eventually followed by exactly one noteEnd for  *)
(* the same action and every restStart by exactly one restEnd, whatever    *)
(* pauseSequence or stopSequence calls occur in between; no noteEnd or     *)
(* restEnd is emitted without a preceding start of the same action.        *)
(***************************************************************************)
C38_EveryStartEnds ==
    /\ [](StartsAndEndsPaired /\ EndsAreOfActions)
    /\ []<>AllEnded

\* a note and a rest were started, the transport was paused or stopped while
\* one of them was still to end, and both have ended since
C38_Witness ==
    /\ timers = <<>>
    /\ \E a \in 1..Len(trace) : \E b \in 1..Len(trace) : \E x \in 1..Len(trace) :
          /\ trace[a].type = "noteStart"
          /\ trace[b].type = "restStart"
          /\ IsCallAt(x, "pauseSequence()") \/ IsCallAt(x, "stopSequence()")
          /\ b < x
          /\ CountUpTo(x, "restEnd", trace[b].gen, trace[b].sequenceNumber, trace[b].index)
               < CountUpTo(x, "restStart", trace[b].gen, trace[b].sequenceNumber, trace[b].index)
          /\ CountUpTo(Len(trace), "restEnd", trace[b].gen, trace[b].sequenceNumber, trace[b].index)
               = CountUpTo(Len(trace), "restStart", trace[b].gen, trace[b].sequenceNumber, trace[b].index)

\* entry j is the playSequence() at clock 0 that begins a playthrough: every
\* earlier one is separated from it by a sequenceEnd or an initSequence()
IsFirstPlayOfPlaythrough(j) ==
    /\ IsPlaythroughStart(j)
    /\ \A x \in 1..(j - 1) :
          IsPlaythroughStart(x) =>
              \E y \in (x + 1)..(j - 1) : trace[y].type \in {"sequenceEnd", "initSequence()"}

\* the sequenceStart events from entry j up to entry e
SequenceStartsBetween(j, e) == {k \in j..e : trace[k].type = "sequenceStart"}

\* entry e is the sequenceEnd of the playthrough begun at j, and nothing but
\* pauseSequence() and playSequence() was called in between
IsPlaythroughFromTo(j, e) ==
    /\ IsFirstPlayOfPlaythrough(j)
    /\ e = FirstEndAfter(j)
    /\ e # 0
    /\ \A x \in (j + 1)..(e - 1) :
          trace[x].type \in CallTypes => trace[x].type \in {"pauseSequence()", "playSequence()"}

(***************************************************************************)
(* C39: within one playthrough, from the first playSequence() at clock 0   *)
(* to the next sequenceEnd, sequenceStart is emitted exactly once, for any *)
(* interleaving of pauseSequence() and playSequence() in between.          *)
(***************************************************************************)
C39_SequenceStartOnce ==
    \A j \in 1..Len(trace) : \A e \in 1..Len(trace) :
        IsPlaythroughFromTo(j, e) => Cardinality(SequenceStartsBetween(j, e)) = 1

\* the same for playthroughs that are not paused while the clock is still 0
C39_SequenceStartOnceUnlessPausedAtZero ==
    \A j \in 1..Len(trace) : \A e \in 1..Len(trace) :
        ( /\ IsPlaythroughFromTo(j, e)
          /\ \A x \in (j + 1)..(e - 1) : IsCallAt(x, "pauseSequence()") => trace[x].at > 0 ) =>
              Cardinality(SequenceStartsBetween(j, e)) = 1

(***************************************************************************)
(* Automatic pedalling on every bar                                        *)
(***************************************************************************)

Sixteenth(p) == ActionGroup(<<NoteAction(p, 16, FALSE, FALSE)>>)

\* notations with autoSustain=on from the first bar on and no pedal markers,
\* with full bars, partial bars of 1000, 500, 100, 50, 25 and 0 ms, and ties
\* across bar lines
PedallingNotations ==
    <<  \* 1 "autoSustain=on C4:4 | D4:4"
        <<Bar(FALSE, FALSE, <<Auto(TRUE), Quarter(C4)>>),
          Bar(FALSE, FALSE, <<Quarter(D4)>>)>>,
        \* 2 "autoSustain=on > C4:4 | > D4:4 E4:4"
        <<Bar(FALSE, TRUE, <<Auto(TRUE), Quarter(C4)>>),
          Bar(FALSE, TRUE, <<Quarter(D4), Quarter(E4)>>)>>,
        \* 3 "autoSustain=on bpm=600 > C4:4 | > D4:4"
        <<Bar(FALSE, TRUE, <<Auto(TRUE), BPM(600), Quarter(C4)>>),
          Bar(FALSE, TRUE, <<Quarter(D4)>>)>>,
        \* 4 "autoSustain=on bpm=600 > C4:8 | > D4:8"
        <<Bar(FALSE, TRUE, <<Auto(TRUE), BPM(600), Eighth(C4)>>),
          Bar(FALSE, TRUE, <<Eighth(D4)>>)>>,
        \* 5 "autoSustain=on C4:4 | bpm=600 > D4:8 | E4:4"
        <<Bar(FALSE, FALSE, <<Auto(TRUE), Quarter(C4)>>),
          Bar(FALSE, TRUE, <<BPM(600), Eighth(D4)>>),
          Bar(FALSE, FALSE, <<Quarter(E4)>>)>>,
        \* 6 "autoSustain=on bpm=600 > C4:16"
        <<Bar(FALSE, TRUE, <<Auto(TRUE), BPM(600), Sixteenth(C4)>>)>>,
        \* 7 "autoSustain=on C4:4 D4~:4 | D4:4 E4:4 | C4:4"
        <<Bar(FALSE, FALSE, <<Auto(TRUE), Quarter(C4), Single(D4, 4, TRUE)>>),
          Bar(FALSE, FALSE, <<Quarter(D4), Quarter(E4)>>),
          Bar(FALSE, FALSE, <<Quarter(C4)>>)>>,
        \* 8 "autoSustain=on > C4~:4 | > C4~:4 | > C4:4"
        <<Bar(FALSE, TRUE, <<Auto(TRUE), Single(C4, 4, TRUE)>>),
          Bar(FALSE, TRUE, <<Single(C4, 4, TRUE)>>),
          Bar(FALSE, TRUE, <<Quarter(C4)>>)>>,
        \* 9 "autoSustain=on | C4:4 D4:4"
        <<Bar(FALSE, FALSE, <<Auto(TRUE)>>),
          Bar(FALSE, FALSE, <<Quarter(C4), Quarter(D4)>>)>>,
        \* 10 "autoSustain=on C4:4 | > ##:8 | D4:4"
        <<Bar(FALSE, FALSE, <<Auto(TRUE), Quarter(C4)>>),
          Bar(FALSE, TRUE, <<ActionGroup(<<RestAction(8, FALSE)>>)>>),
          Bar(FALSE, FALSE, <<Quarter(D4)>>)>>,
        \* 11 "autoSustain=on bpm=600 > C4~:8 | > C4:8"
        <<Bar(FALSE, TRUE, <<Auto(TRUE), BPM(600), Single(C4, 8, TRUE)>>),
          Bar(FALSE, TRUE, <<Eighth(C4)>>)>>,
        \* 12 "autoSustain=on time=2/2 C4:2 | > D4:2"
        <<Bar(FALSE, FALSE, <<Auto(TRUE), Time(2, 2), ActionGroup(<<NoteAction(C4, 2, FALSE, FALSE)>>)>>),
          Bar(FALSE, TRUE, <<ActionGroup(<<NoteAction(D4, 2, FALSE, FALSE)>>)>>)>> >>

CompilePedalling ==
    /\ Len(inputs) < MaxInits
    /\ \E n \in DOMAIN PedallingNotations : InitSequenceWithNotation(PedallingNotations[n])

SpecPedalling == Init /\ [][CompilePedalling]_vars

\* automatic pedalling is active for every bar of call c, and no pedal marker
\* is written in any of them
PedalledAutomaticallyThroughout(c) ==
    \A i \in 1..Len(inputs[c].bars) :
        /\ PedallingActive(c, i)
        /\ GroupsOfType(inputs[c].bars[i].actionGroups, "sustainPedalDown") = {}
        /\ GroupsOfType(inputs[c].bars[i].actionGroups, "sustainPedalUp") = {}

\* the pedal groups of the compiled list of call c, in sequence-number order
PedalGroupsOf(c) == SelectSeq(compiledLists[inputs[c].list], isSustainPedalActionGroup)

PedalsAlternate(pedals) ==
    /\ Len(pedals) % 2 = 0
    /\ \A k \in 1..Len(pedals) :
          pedals[k].actions[1].type =
             (IF k % 2 = 1 THEN "sustainPedalDown" ELSE "sustainPedalUp")

PedalsWithinTheirBars(c, pedals) ==
    \A k \in 1..Len(pedals) :
        /\ pedals[k].startTimeInSequenceInMs >= 0
        /\ pedals[k].startTimeInSequenceInMs >= StartOfBar(c, pedals[k].barIndex + 1)

\* every bar of call c is at least as long as the time the pedal goes up
\* before the next bar
NoBarShorterThanPedalLead(c) ==
    \A i \in 1..Len(inputs[c].bars) :
        LengthOfBar(c, i) >= timePeriodInWhichSustainPedalGoesUpBeforeNextBarInMs

(***************************************************************************)
(* C40: with automatic pedalling active for every bar and no manual pedal  *)
(* markers, the pedal groups of the compiled list, in sequence-number      *)
(* order, strictly alternate sustainPedalDown / sustainPedalUp, beginning  *)
(* with a down and ending with an up, and every inserted pedal group has a *)
(* start time that is at least 0 and at least the start of its own bar,    *)
(* for bars of any length including partial bars.                          *)
(***************************************************************************)
C40_PedalsAlternate ==
    \A c \in CompilingCalls :
        PedalledAutomaticallyThroughout(c) =>
            /\ PedalsAlternate(PedalGroupsOf(c))
            /\ PedalsWithinTheirBars(c, PedalGroupsOf(c))

\* the same for lists whose bars all last 100 ms or more
C40_PedalsAlternateInLongBars ==
    \A c \in CompilingCalls :
        (PedalledAutomaticallyThroughout(c) /\ NoBarShorterThanPedalLead(c)) =>
            /\ PedalsAlternate(PedalGroupsOf(c))
            /\ PedalsWithinTheirBars(c, PedalGroupsOf(c))

====
